---- MODULE Spec2Model ----
(***************************************************************************)
(* A model of the DPLL and CDCL SAT solvers (src/src/solver.py) and of the *)
(* CNF preprocessing pipeline (src/src/preprocessing.py).                  *)
(*                                                                         *)
(* Spec     : DPLLSolver(cnf).solve() followed by CDCLSolver(cnf).solve()  *)
(*            on one input formula, the sequence of src/app.py solve().    *)
(* FairSpec : Spec with weak fairness of the solvers' steps (the program   *)
(*            is single threaded and every step that can run does run).    *)
(* SpecPre  : to_nnf, to_cnf and to_cnf_tseytin on one input formula.      *)
(* SpecPreZ : SpecPre on formulas that use the variable name z_1.          *)
(* SpecParse: tokenize and parse (src/src/parser.py) on one input text.     *)
(* SpecDimacs: parse_dimacs_string (src/src/dimacs_parser.py) on one text. *)
(* SpecSteps: the single transformation steps of the pipeline on formula   *)
(*            trees that may hold a node of an unknown type.               *)
(***************************************************************************)
EXTENDS Integers, Sequences, FiniteSets, TLC

\* ------------------------------------------------------------------ bounds

\* Number of propositional variables an input CNF formula may use.
NumVars == 3
\* Largest number of literals in a clause of an input CNF formula.
MaxLen == 3
\* Largest number of clauses in an input CNF formula.
MaxClauses == 3
\* Largest length of CDCLSolver.learned_clauses that is represented.
MaxLearned == 4
\* The input formulas of the preprocessing functions have at most MaxOps connectives.
MaxOps == 2

VarNames == <<"p", "q", "r", "s", "t">>
Vars == {VarNames[i] : i \in 1..NumVars}

\* ------------------------------------------------------------------ data

\* logic_ast.Literal
Literal(variable, negated) == [variable |-> variable, negated |-> negated]
Literals == [variable : Vars, negated : BOOLEAN]

SeqsUpTo(S, n) == UNION {[1..k -> S] : k \in 0..n}

\* logic_ast.Clause: the ordered list of its literals (duplicates allowed).
Clauses(n) == SeqsUpTo(Literals, n)

\* The variables of a formula in the order of their first occurrence.
RECURSIVE first_occurrences(_, _, _, _)
first_occurrences(formula, c, i, seen) ==
    IF c > Len(formula) THEN seen
    ELSE IF i > Len(formula[c]) THEN first_occurrences(formula, c + 1, 1, seen)
    ELSE IF \E k \in 1..Len(seen) : seen[k] = formula[c][i].variable
         THEN first_occurrences(formula, c, i + 1, seen)
         ELSE first_occurrences(formula, c, i + 1, Append(seen, formula[c][i].variable))

\* Neither solver looks at a variable name except to compare it with another,
\* so the inputs name their variables p, q, r in order of first occurrence.
NamedInOrder(formula) ==
    LET seen == first_occurrences(formula, 1, 1, <<>>)
    IN  \A k \in 1..Len(seen) : seen[k] = VarNames[k]

\* Clauses of two literals over two different variables.
BinaryClauses ==
    {<<l1, l2>> : <<l1, l2>> \in {x \in Literals \X Literals :
                                      /\ x[1].variable # x[2].variable
                                      /\ {x[1].variable, x[2].variable} = {VarNames[1], VarNames[2]}}}

\* logic_ast.CNFFormula: the ordered list of its clauses. The inputs are
\*   up to MaxClauses clauses of fewer than MaxLen literals,
\*   fewer than MaxClauses clauses of up to MaxLen literals, and
\*   MaxClauses + 1 binary clauses over the first two variables.
CNFFormulas ==
    {formula \in SeqsUpTo(Clauses(MaxLen - 1), MaxClauses)
                 \cup SeqsUpTo(Clauses(MaxLen), MaxClauses - 1)
                 \cup [1..(MaxClauses + 1) -> BinaryClauses] :
         NamedInOrder(formula)}

\* DecisionResult, plus the two outcomes that are not a returned value.
SAT == "SAT"
UNSAT == "UNSAT"
NoResult == "NONE"
RuntimeError == "RuntimeError"
KeyError == "KeyError"

\* Optional[Clause]
None == [is_none |-> TRUE, clause |-> <<>>]
Some(clause) == [is_none |-> FALSE, clause |-> clause]

\* Dict[str, bool]: a function whose domain is the set of keys.
EmptyDict == [v \in {} |-> TRUE]
DictSet(d, k, val) == [v \in (DOMAIN d) \cup {k} |-> IF v = k THEN val ELSE d[v]]
DictDel(d, k) == [v \in (DOMAIN d) \ {k} |-> d[v]]

\* The inputs on which termination is checked.
LiveFormulas ==
    {formula \in SeqsUpTo(Clauses(MaxLen - 1), MaxClauses - 1) : NamedInOrder(formula)}

\* solver.Assignment (a trail entry)
Assignment(variable, value, level, reason) ==
    [variable |-> variable, value |-> value, decision_level |-> level, reason |-> reason]

\* solver.ImplicationNode
ImplicationNode(variable, value, level, reason, antecedents) ==
    [variable |-> variable, value |-> value, decision_level |-> level,
     reason |-> reason, antecedents |-> antecedents]

VARIABLES
    cnf,                \* the input CNFFormula shared by both solvers
    \* DPLLSolver
    dpll_assignment,    \* DPLLSolver.assignment
    dpll_stack,         \* the active _dpll calls that wait for a recursive call
    dpll_arg,           \* the argument `assignment` of the _dpll call to run
    dpll_ret,           \* the value the last finished _dpll call returned
    dpll_pc,            \* "call" | "return" | "done"
    dpll_result,        \* what DPLLSolver.solve() returned
    \* CDCLSolver
    assignment,         \* CDCLSolver.assignment
    decision_stack,     \* CDCLSolver.decision_stack (the trail)
    learned_clauses,    \* CDCLSolver.learned_clauses
    decision_level,     \* CDCLSolver.decision_level
    implication_graph,  \* CDCLSolver.implication_graph
    conflict_clause,    \* the local conflict_clause of CDCLSolver.solve()
    cdcl_pc,            \* "propagate" | "conflict" | "decide" | "done"
    cdcl_result,        \* what CDCLSolver.solve() returned
    \* preprocessing
    input_formula,      \* the input Formula of the preprocessing functions
    pre_done,           \* the preprocessing functions that have been applied
    nnf,                \* the result of to_nnf(formula)
    classical,          \* the result of to_cnf(formula)
    tseytin,            \* the result of to_cnf_tseytin(formula)
    step_result,        \* the results of the single preprocessing steps, by name
    \* parser and DIMACS reader
    text,               \* the argument `formula` of tokenize and parse, as characters
    tokens,             \* what tokenize(text) returned
    parsed,             \* what parse(text) returned
    dimacs_content,     \* the argument of parse_dimacs_string, as lines of characters
    dimacs_result,      \* what parse_dimacs_string(dimacs_content) returned
    read_done           \* the functions of the parser and the reader that have been called

dpll_vars == <<dpll_assignment, dpll_stack, dpll_arg, dpll_ret, dpll_pc, dpll_result>>
cdcl_vars == <<assignment, decision_stack, learned_clauses, decision_level,
               implication_graph, conflict_clause, cdcl_pc, cdcl_result>>
pre_vars == <<input_formula, pre_done, nnf, classical, tseytin, step_result>>
read_vars == <<text, tokens, parsed, dimacs_content, dimacs_result, read_done>>
vars == <<cnf, dpll_vars, cdcl_vars, pre_vars, read_vars>>

\* ------------------------------------------------------------------ shared

\* DPLLSolver._is_literal_satisfied (and the same expression inlined in CDCL)
is_literal_satisfied(literal, variable_value) ==
    (~literal.negated /\ variable_value) \/ (literal.negated /\ ~variable_value)

\* A wrong _evaluate_clause: a clause without literals is undetermined.
evaluate_nonempty_clause(clause, a) ==
    IF \E i \in 1..Len(clause) :
           /\ clause[i].variable \in DOMAIN a
           /\ is_literal_satisfied(clause[i], a[clause[i].variable])
    THEN "True"
    ELSE IF Len(clause) > 0 /\ \A i \in 1..Len(clause) : clause[i].variable \in DOMAIN a
         THEN "False"
         ELSE "None"

\* _evaluate_clause of both solvers: "True", "False" or "None" (undetermined)
evaluate_clause(clause, a) ==
    IF \E i \in 1..Len(clause) :
           /\ clause[i].variable \in DOMAIN a
           /\ is_literal_satisfied(clause[i], a[clause[i].variable])
    THEN "True"
    ELSE IF \A i \in 1..Len(clause) : clause[i].variable \in DOMAIN a
         THEN "False"
         ELSE "None"

\* the list comprehension `unassigned_literals` of both _unit_propagation
unassigned_literals(clause, a) ==
    SelectSeq(clause, LAMBDA literal : literal.variable \notin DOMAIN a)

\* DPLLSolver._get_all_variables
get_all_variables ==
    UNION {{cnf[c][i].variable : i \in 1..Len(cnf[c])} : c \in 1..Len(cnf)}

\* ------------------------------------------------------------------ DPLL

\* One `for clause in self.cnf.clauses` pass of DPLLSolver._unit_propagation,
\* from clause index c on; the assignment is updated in place during the pass.
RECURSIVE DPLL_propagation_pass(_, _, _)
DPLL_propagation_pass(c, a, propagated_any) ==
    IF c > Len(cnf)
    THEN [conflict |-> FALSE, assignment |-> a, propagated_any |-> propagated_any]
    ELSE LET clause_state == evaluate_clause(cnf[c], a)
             unassigned == unassigned_literals(cnf[c], a)
         IN  IF clause_state = "False"
             THEN [conflict |-> TRUE, assignment |-> a, propagated_any |-> propagated_any]
             ELSE IF clause_state = "True"
             THEN DPLL_propagation_pass(c + 1, a, propagated_any)
             ELSE IF Len(unassigned) = 1
             THEN DPLL_propagation_pass(
                      c + 1,
                      DictSet(a, unassigned[1].variable, ~unassigned[1].negated),
                      TRUE)
             ELSE DPLL_propagation_pass(c + 1, a, propagated_any)

\* DPLLSolver._unit_propagation: [ok |-> the returned bool, assignment |-> ...]
RECURSIVE DPLL_unit_propagation(_)
DPLL_unit_propagation(a) ==
    LET pass == DPLL_propagation_pass(1, a, FALSE)
    IN  IF pass.conflict
        THEN [ok |-> FALSE, assignment |-> pass.assignment]
        ELSE IF pass.propagated_any
        THEN DPLL_unit_propagation(pass.assignment)
        ELSE [ok |-> TRUE, assignment |-> pass.assignment]

\* The dict variable_polarities of DPLLSolver._pure_literal_elimination:
\* its keys, and the set of polarities recorded for a key.
pure_literal_candidates(a) ==
    UNION {{cnf[c][i].variable : i \in {i \in 1..Len(cnf[c]) :
                                           cnf[c][i].variable \notin DOMAIN a}} :
           c \in {c \in 1..Len(cnf) : evaluate_clause(cnf[c], a) # "True"}}

variable_polarities(a, variable) ==
    UNION {{~cnf[c][i].negated : i \in {i \in 1..Len(cnf[c]) :
                                           cnf[c][i].variable = variable}} :
           c \in {c \in 1..Len(cnf) : evaluate_clause(cnf[c], a) # "True"}}

\* A wrong _pure_literal_elimination: the polarities are collected from all
\* clauses, the satisfied ones included.
pure_literal_elimination_of_all_clauses(a) ==
    LET polarities(v) ==
            UNION {{~cnf[c][i].negated : i \in {i \in 1..Len(cnf[c]) : cnf[c][i].variable = v}} :
                   c \in 1..Len(cnf)}
        pure == {v \in pure_literal_candidates(a) : Cardinality(polarities(v)) = 1}
    IN  [v \in (DOMAIN a) \cup pure |->
            IF v \in DOMAIN a THEN a[v]
            ELSE CHOOSE b \in polarities(v) : TRUE]

\* DPLLSolver._pure_literal_elimination: the assignment after the call
pure_literal_elimination(a) ==
    LET pure == {v \in pure_literal_candidates(a) :
                     Cardinality(variable_polarities(a, v)) = 1}
    IN  [v \in (DOMAIN a) \cup pure |->
            IF v \in DOMAIN a THEN a[v]
            ELSE CHOOSE b \in variable_polarities(a, v) : TRUE]

\* A wrong _all_clauses_satisfied: one satisfied clause is enough.
some_clause_satisfied(a) ==
    \E c \in 1..Len(cnf) : evaluate_clause(cnf[c], a) = "True"

\* DPLLSolver._all_clauses_satisfied
all_clauses_satisfied(a) ==
    \A c \in 1..Len(cnf) : evaluate_clause(cnf[c], a) = "True"

\* A wrong _choose_variable: any variable of the formula, assigned or not.
choose_any_variable(a) == get_all_variables

\* DPLLSolver._choose_variable: the variables the loop over the set
\* all_variables can return first (a set has no defined iteration order).
DPLL_choose_variable(a) == {v \in get_all_variables : v \notin DOMAIN a}

\* ------------------------------------------------------------------ CDCL

\* The three collections CDCLSolver updates together.
CDCLState(a, stack, graph) ==
    [assignment |-> a, decision_stack |-> stack, implication_graph |-> graph]

\* the list comprehension `antecedent_nodes` of CDCLSolver._add_implication
RECURSIVE antecedent_nodes(_, _, _, _)
antecedent_nodes(reason, i, variable, graph) ==
    IF i > Len(reason) THEN <<>>
    ELSE IF reason[i].variable # variable /\ reason[i].variable \in DOMAIN graph
         THEN <<graph[reason[i].variable]>> \o antecedent_nodes(reason, i + 1, variable, graph)
         ELSE antecedent_nodes(reason, i + 1, variable, graph)

\* A wrong _add_implication: the opposite of the implied value is recorded.
add_implication_negated(s, level, variable, value, reason) ==
    CDCLState(
        DictSet(s.assignment, variable, ~value),
        Append(s.decision_stack, Assignment(variable, ~value, level, Some(reason))),
        [v \in (DOMAIN s.implication_graph) \cup {variable} |->
            IF v = variable
            THEN ImplicationNode(variable, ~value, level, Some(reason),
                                 antecedent_nodes(reason, 1, variable, s.implication_graph))
            ELSE s.implication_graph[v]])

\* CDCLSolver._add_implication
add_implication(s, level, variable, value, reason) ==
    CDCLState(
        DictSet(s.assignment, variable, value),
        Append(s.decision_stack, Assignment(variable, value, level, Some(reason))),
        [v \in (DOMAIN s.implication_graph) \cup {variable} |->
            IF v = variable
            THEN ImplicationNode(variable, value, level, Some(reason),
                                 antecedent_nodes(reason, 1, variable, s.implication_graph))
            ELSE s.implication_graph[v]])

\* A wrong _make_decision: the entry is recorded before decision_level is
\* incremented, at the level that was current.
make_decision_at_old_level(s, level, variable, value) ==
    CDCLState(
        DictSet(s.assignment, variable, value),
        Append(s.decision_stack, Assignment(variable, value, level - 1, None)),
        [v \in (DOMAIN s.implication_graph) \cup {variable} |->
            IF v = variable
            THEN ImplicationNode(variable, value, level - 1, None, <<>>)
            ELSE s.implication_graph[v]])

\* CDCLSolver._make_decision, given the incremented decision level
make_decision(s, level, variable, value) ==
    CDCLState(
        DictSet(s.assignment, variable, value),
        Append(s.decision_stack, Assignment(variable, value, level, None)),
        [v \in (DOMAIN s.implication_graph) \cup {variable} |->
            IF v = variable
            THEN ImplicationNode(variable, value, level, None, <<>>)
            ELSE s.implication_graph[v]])

\* A wrong pass of _unit_propagation: the first unassigned literal of every
\* undetermined clause is propagated, unit or not.
RECURSIVE propagation_pass_of_open_clauses(_, _, _, _, _)
propagation_pass_of_open_clauses(db, c, s, level, propagated) ==
    IF c > Len(db)
    THEN [conflict |-> None, state |-> s, propagated |-> propagated]
    ELSE LET clause_state == evaluate_clause(db[c], s.assignment)
             unassigned == unassigned_literals(db[c], s.assignment)
         IN  IF clause_state = "False"
             THEN [conflict |-> Some(db[c]), state |-> s, propagated |-> propagated]
             ELSE IF clause_state = "True"
             THEN propagation_pass_of_open_clauses(db, c + 1, s, level, propagated)
             ELSE propagation_pass_of_open_clauses(
                      db, c + 1,
                      add_implication(s, level, unassigned[1].variable,
                                      ~unassigned[1].negated, db[c]),
                      level, TRUE)

\* One `for clause in self.cnf.clauses + self.learned_clauses` pass of
\* CDCLSolver._unit_propagation, from index c of that list on.
RECURSIVE CDCL_propagation_pass(_, _, _, _, _)
CDCL_propagation_pass(db, c, s, level, propagated) ==
    IF c > Len(db)
    THEN [conflict |-> None, state |-> s, propagated |-> propagated]
    ELSE LET clause_state == evaluate_clause(db[c], s.assignment)
             unassigned == unassigned_literals(db[c], s.assignment)
         IN  IF clause_state = "False"
             THEN [conflict |-> Some(db[c]), state |-> s, propagated |-> propagated]
             ELSE IF clause_state = "True"
             THEN CDCL_propagation_pass(db, c + 1, s, level, propagated)
             ELSE IF Len(unassigned) = 1
             THEN CDCL_propagation_pass(
                      db, c + 1,
                      add_implication(s, level, unassigned[1].variable,
                                      ~unassigned[1].negated, db[c]),
                      level, TRUE)
             ELSE CDCL_propagation_pass(db, c + 1, s, level, propagated)

\* A wrong _unit_propagation: one pass over the clauses, without the loop that
\* repeats the pass while a pass propagated something.
propagate_single_pass(db, s, level) ==
    LET pass == CDCL_propagation_pass(db, 1, s, level, FALSE)
    IN  [conflict |-> pass.conflict, state |-> pass.state]

\* CDCLSolver._unit_propagation: [conflict |-> Optional[Clause], state |-> ...]
RECURSIVE CDCL_unit_propagation(_, _, _)
CDCL_unit_propagation(db, s, level) ==
    LET pass == CDCL_propagation_pass(db, 1, s, level, FALSE)
    IN  IF ~pass.conflict.is_none
        THEN [conflict |-> pass.conflict, state |-> pass.state]
        ELSE IF pass.propagated
        THEN CDCL_unit_propagation(db, pass.state, level)
        ELSE [conflict |-> None, state |-> pass.state]

\* CDCLSolver._is_variable_at_current_level
is_variable_at_current_level(variable, graph, level) ==
    variable \in DOMAIN graph /\ graph[variable].decision_level = level

\* CDCLSolver._count_current_level_variables (one count per literal)
count_current_level_variables(clause, graph, level) ==
    Len(SelectSeq(clause,
                  LAMBDA literal : is_variable_at_current_level(literal.variable, graph, level)))

\* CDCLSolver._is_first_unique_implication_point
is_first_unique_implication_point(clause, graph, level) ==
    count_current_level_variables(clause, graph, level) <= 1

\* CDCLSolver._find_variable_assignment_index (0-based, -1 if not found)
find_variable_assignment_index(variable, stack, level) ==
    LET hits == {i \in 1..Len(stack) :
                     stack[i].variable = variable /\ stack[i].decision_level = level}
    IN  IF hits = {} THEN -1
        ELSE (CHOOSE i \in hits : \A j \in hits : i <= j) - 1

\* Optional[str]: the value None of a variable name
NoVariable == "<None>"

\* CDCLSolver._find_most_recent_current_level_variable: max() returns the
\* first element of the list that has the largest key.
find_most_recent_current_level_variable(clause, stack, graph, level) ==
    LET current_level_literals ==
            SelectSeq(clause,
                      LAMBDA literal : is_variable_at_current_level(literal.variable, graph, level))
        key(i) == find_variable_assignment_index(current_level_literals[i].variable, stack, level)
    IN  IF Len(current_level_literals) = 0 THEN NoVariable
        ELSE current_level_literals[
                 CHOOSE i \in 1..Len(current_level_literals) :
                     /\ \A j \in 1..Len(current_level_literals) : key(j) <= key(i)
                     /\ \A j \in 1..(i - 1) : key(j) < key(i)].variable

\* CDCLSolver._can_resolve_on_variable
can_resolve_on_variable(variable, graph) ==
    /\ variable # NoVariable
    /\ variable \in DOMAIN graph
    /\ ~graph[variable].reason.is_none

\* CDCLSolver._literal_exists
literal_exists(literal, literal_list) ==
    \E i \in 1..Len(literal_list) :
        /\ literal_list[i].variable = literal.variable
        /\ literal_list[i].negated = literal.negated

\* the loop of CDCLSolver._resolve_clauses over the literals of both clauses
RECURSIVE resolve_literals(_, _, _, _)
resolve_literals(literals, i, pivot_var, resolved_literals) ==
    IF i > Len(literals) THEN resolved_literals
    ELSE IF literals[i].variable # pivot_var /\ ~literal_exists(literals[i], resolved_literals)
         THEN resolve_literals(literals, i + 1, pivot_var, Append(resolved_literals, literals[i]))
         ELSE resolve_literals(literals, i + 1, pivot_var, resolved_literals)

\* A wrong _resolve_clauses: the literals of the second clause are left out.
resolve_first_clause_only(clause1, clause2, pivot_var) ==
    resolve_literals(clause1, 1, pivot_var, <<>>)

\* CDCLSolver._resolve_clauses
resolve_clauses(clause1, clause2, pivot_var) ==
    resolve_literals(clause1 \o clause2, 1, pivot_var, <<>>)

\* the while loop of CDCLSolver._analyze_conflict
RECURSIVE analyze_loop(_, _, _, _)
analyze_loop(resolvent_clause, stack, graph, level) ==
    IF is_first_unique_implication_point(resolvent_clause, graph, level)
    THEN resolvent_clause
    ELSE LET resolution_variable ==
                 find_most_recent_current_level_variable(resolvent_clause, stack, graph, level)
         IN  IF ~can_resolve_on_variable(resolution_variable, graph)
             THEN resolvent_clause
             ELSE analyze_loop(
                      resolve_clauses(resolvent_clause,
                                      graph[resolution_variable].reason.clause,
                                      resolution_variable),
                      stack, graph, level)

\* A wrong _analyze_conflict: without the base case for decision level 0, a
\* conflict clause of level 0 is resolved like any other.
analyze_conflict_without_base_case(clause, stack, graph, level) ==
    analyze_loop(clause, stack, graph, level)

\* CDCLSolver._analyze_conflict
analyze_conflict(clause, stack, graph, level) ==
    IF level = 0 THEN clause ELSE analyze_loop(clause, stack, graph, level)

\* A wrong _backjump: the highest decision level of the clause is returned.
backjump_to_highest_level(learned_clause, graph) ==
    LET decision_levels ==
            SelectSeq(learned_clause, LAMBDA literal : literal.variable \in DOMAIN graph)
        unique_levels ==
            {graph[decision_levels[i].variable].decision_level : i \in 1..Len(decision_levels)}
    IN  IF Len(learned_clause) <= 1 THEN 0
        ELSE IF Len(decision_levels) <= 1 THEN 0
        ELSE CHOOSE l \in unique_levels : \A m \in unique_levels : m <= l

\* A wrong _backjump: the lowest decision level of the clause is returned.
backjump_to_lowest_level(learned_clause, graph) ==
    LET decision_levels ==
            SelectSeq(learned_clause, LAMBDA literal : literal.variable \in DOMAIN graph)
        unique_levels ==
            {graph[decision_levels[i].variable].decision_level : i \in 1..Len(decision_levels)}
    IN  IF Len(learned_clause) <= 1 THEN 0
        ELSE IF Len(decision_levels) <= 1 THEN 0
        ELSE CHOOSE l \in unique_levels : \A m \in unique_levels : l <= m

\* CDCLSolver._backjump
backjump(learned_clause, graph) ==
    LET decision_levels ==
            SelectSeq(learned_clause, LAMBDA literal : literal.variable \in DOMAIN graph)
        unique_levels ==
            {graph[decision_levels[i].variable].decision_level : i \in 1..Len(decision_levels)}
        highest == CHOOSE l \in unique_levels : \A m \in unique_levels : m <= l
        lower == unique_levels \ {highest}
    IN  IF Len(learned_clause) <= 1 THEN 0
        ELSE IF Len(decision_levels) <= 1 THEN 0
        ELSE IF Cardinality(unique_levels) > 1
             THEN CHOOSE l \in lower : \A m \in lower : m <= l
             ELSE 0

\* A wrong _remove_current_level_assignments: the nodes of the popped entries
\* stay in the implication graph.
RECURSIVE remove_keeping_graph(_, _)
remove_keeping_graph(s, level) ==
    IF Len(s.decision_stack) > 0 /\ s.decision_stack[Len(s.decision_stack)].decision_level = level
    THEN LET popped == s.decision_stack[Len(s.decision_stack)]
         IN  remove_keeping_graph(
                 CDCLState(DictDel(s.assignment, popped.variable),
                           SubSeq(s.decision_stack, 1, Len(s.decision_stack) - 1),
                           s.implication_graph),
                 level)
    ELSE s

\* A wrong _remove_current_level_assignments: the decision that opened the
\* level stays on the trail, only the propagations after it are popped.
RECURSIVE remove_current_level_propagations(_, _)
remove_current_level_propagations(s, level) ==
    IF /\ Len(s.decision_stack) > 0
       /\ s.decision_stack[Len(s.decision_stack)].decision_level = level
       /\ ~s.decision_stack[Len(s.decision_stack)].reason.is_none
    THEN LET popped == s.decision_stack[Len(s.decision_stack)]
         IN  remove_current_level_propagations(
                 CDCLState(DictDel(s.assignment, popped.variable),
                           SubSeq(s.decision_stack, 1, Len(s.decision_stack) - 1),
                           DictDel(s.implication_graph, popped.variable)),
                 level)
    ELSE s

\* CDCLSolver._remove_current_level_assignments
RECURSIVE remove_current_level_assignments(_, _)
remove_current_level_assignments(s, level) ==
    IF Len(s.decision_stack) > 0 /\ s.decision_stack[Len(s.decision_stack)].decision_level = level
    THEN LET popped == s.decision_stack[Len(s.decision_stack)]
         IN  remove_current_level_assignments(
                 CDCLState(DictDel(s.assignment, popped.variable),
                           SubSeq(s.decision_stack, 1, Len(s.decision_stack) - 1),
                           DictDel(s.implication_graph, popped.variable)),
                 level)
    ELSE s

\* A wrong _backtrack_to_level: the level is lowered and the trail is kept.
backtrack_keeping_trail(s, level, target_level) ==
    [state |-> s, decision_level |-> target_level]

\* A wrong _backtrack_to_level: only the current decision level is undone.
backtrack_one_level(s, level, target_level) ==
    IF level > target_level
    THEN [state |-> remove_current_level_assignments(s, level), decision_level |-> level - 1]
    ELSE [state |-> s, decision_level |-> level]

\* CDCLSolver._backtrack_to_level: [state |-> ..., decision_level |-> ...]
RECURSIVE backtrack_to_level(_, _, _)
backtrack_to_level(s, level, target_level) ==
    IF level > target_level
    THEN backtrack_to_level(remove_current_level_assignments(s, level), level - 1, target_level)
    ELSE [state |-> s, decision_level |-> level]

\* Whether `del self.assignment[assignment.variable]` raises KeyError during
\* CDCLSolver._backtrack_to_level: a popped variable is not a key of assignment.
RECURSIVE backtrack_raises_KeyError(_, _, _)
backtrack_raises_KeyError(s, level, target_level) ==
    IF level <= target_level THEN FALSE
    ELSE IF Len(s.decision_stack) > 0
            /\ s.decision_stack[Len(s.decision_stack)].decision_level = level
    THEN LET popped == s.decision_stack[Len(s.decision_stack)]
         IN  \/ popped.variable \notin DOMAIN s.assignment
             \/ backtrack_raises_KeyError(
                    CDCLState(DictDel(s.assignment, popped.variable),
                              SubSeq(s.decision_stack, 1, Len(s.decision_stack) - 1),
                              DictDel(s.implication_graph, popped.variable)),
                    level, target_level)
    ELSE backtrack_raises_KeyError(s, level - 1, target_level)

\* A wrong _choose_variable: only the first literal of every clause is
\* looked at.
choose_variable_of_first_literals(db, a) ==
    LET open == {c \in 1..Len(db) : Len(db[c]) > 0 /\ db[c][1].variable \notin DOMAIN a}
        first == CHOOSE c \in open : \A d \in open : c <= d
    IN  IF open = {} THEN NoVariable ELSE db[first][1].variable

\* CDCLSolver._choose_variable: the first unassigned variable in clause order
CDCL_choose_variable(db, a) ==
    LET open == UNION {{<<c, i>> : i \in {i \in 1..Len(db[c]) :
                                             db[c][i].variable \notin DOMAIN a}} :
                       c \in 1..Len(db)}
        first == CHOOSE x \in open :
                     \A y \in open : x[1] < y[1] \/ (x[1] = y[1] /\ x[2] <= y[2])
    IN  IF open = {} THEN NoVariable ELSE db[first[1]][first[2]].variable

\* ------------------------------------------------------------------ formulas

\* logic_ast.Formula: a node is a tuple of its class name and its fields.
Variable(name) == <<"Variable", name>>
Not(operand) == <<"Not", operand>>
And(left, right) == <<"And", left, right>>
Or(left, right) == <<"Or", left, right>>
Implies(left, right) == <<"Implies", left, right>>
Biconditional(left, right) == <<"Biconditional", left, right>>

\* type(formula).__name__
TypeOf(node) == node[1]

\* The ValueError a preprocessing function raises, in place of its result.
ValueError == <<"ValueError">>
Raised(node) == TypeOf(node) = "ValueError"

\* A CNFFormula returned by a preprocessing function, or the ValueError raised.
CNFResult(clauses) == [raised |-> FALSE, clauses |-> clauses]
CNFValueError == [raised |-> TRUE, clauses |-> <<>>]

\* operator_class(left, right), or the exception that building an operand raised
Binary(operator_class, left, right) ==
    IF Raised(left) THEN left
    ELSE IF Raised(right) THEN right
    ELSE <<operator_class, left, right>>

\* Not(operand), or the exception that building the operand raised
Unary(operand) == IF Raised(operand) THEN operand ELSE Not(operand)

\* preprocessing.eliminate_implications with its transformation_map
RECURSIVE eliminate_implications(_)
eliminate_implications(node) ==
    CASE TypeOf(node) = "Variable" -> node
      [] TypeOf(node) = "Not" -> Unary(eliminate_implications(node[2]))
      [] TypeOf(node) = "And" ->
            Binary("And", eliminate_implications(node[2]), eliminate_implications(node[3]))
      [] TypeOf(node) = "Or" ->
            Binary("Or", eliminate_implications(node[2]), eliminate_implications(node[3]))
      [] TypeOf(node) = "Implies" ->
            Binary("Or", Unary(eliminate_implications(node[2])),
                         eliminate_implications(node[3]))
      [] TypeOf(node) = "Biconditional" ->
            LET left == eliminate_implications(node[2])
                right == eliminate_implications(node[3])
            IN  Binary("And", Binary("Or", Unary(left), right),
                              Binary("Or", Unary(right), left))
      [] OTHER -> ValueError

\* preprocessing.push_negations_inward with its transformation_map, and
\* _push_negations_not with _apply_de_morgan_to_and and _apply_de_morgan_to_or
RECURSIVE push_negations_inward(_)
RECURSIVE push_negations_not(_)
\* A wrong push_negations_inward: the operands of a conjunction are swapped.
push_negations_swapping_operands(node) ==
    CASE TypeOf(node) = "Variable" -> node
      [] TypeOf(node) = "Not" -> push_negations_not(node)
      [] TypeOf(node) = "And" ->
            Binary("And", push_negations_inward(node[3]), push_negations_inward(node[2]))
      [] TypeOf(node) = "Or" ->
            Binary("Or", push_negations_inward(node[2]), push_negations_inward(node[3]))
      [] OTHER -> ValueError

push_negations_inward(node) ==
    CASE TypeOf(node) = "Variable" -> node
      [] TypeOf(node) = "Not" -> push_negations_not(node)
      [] TypeOf(node) = "And" ->
            Binary("And", push_negations_inward(node[2]), push_negations_inward(node[3]))
      [] TypeOf(node) = "Or" ->
            Binary("Or", push_negations_inward(node[2]), push_negations_inward(node[3]))
      [] OTHER -> ValueError

\* A wrong _push_negations_not: the operand of a double negation is returned
\* as it is.
push_negations_double_negation_only(node) ==
    LET operand == node[2]
    IN  CASE TypeOf(operand) = "Variable" -> node
          [] TypeOf(operand) = "Not" -> operand[2]
          [] TypeOf(operand) = "And" ->
                Binary("Or", push_negations_inward(Not(operand[2])),
                             push_negations_inward(Not(operand[3])))
          [] TypeOf(operand) = "Or" ->
                Binary("And", push_negations_inward(Not(operand[2])),
                              push_negations_inward(Not(operand[3])))
          [] OTHER -> ValueError

\* A wrong _push_negations_not: the negation of a conjunction or disjunction
\* is pushed to the operands and the connective is kept.
push_negations_keeping_connective(node) ==
    LET operand == node[2]
    IN  CASE TypeOf(operand) = "Variable" -> node
          [] TypeOf(operand) = "Not" -> push_negations_inward(operand[2])
          [] TypeOf(operand) \in {"And", "Or"} ->
                Binary(TypeOf(operand), push_negations_inward(Not(operand[2])),
                                        push_negations_inward(Not(operand[3])))
          [] OTHER -> ValueError

push_negations_not(node) ==
    LET operand == node[2]
    IN  CASE TypeOf(operand) = "Variable" -> node
          [] TypeOf(operand) = "Not" -> push_negations_inward(operand[2])
          [] TypeOf(operand) = "And" ->
                Binary("Or", push_negations_inward(Not(operand[2])),
                             push_negations_inward(Not(operand[3])))
          [] TypeOf(operand) = "Or" ->
                Binary("And", push_negations_inward(Not(operand[2])),
                              push_negations_inward(Not(operand[3])))
          [] OTHER -> ValueError

\* preprocessing.distribute_or_over_and with its transformation_map, and
\* _distribute_or with _distribute_left_over_and and _distribute_right_over_and
RECURSIVE distribute_or_over_and(_)
RECURSIVE distribute_or(_)
distribute_or_over_and(node) ==
    CASE TypeOf(node) = "Variable" -> node
      [] TypeOf(node) = "Not" -> Unary(distribute_or_over_and(node[2]))
      [] TypeOf(node) = "And" ->
            Binary("And", distribute_or_over_and(node[2]), distribute_or_over_and(node[3]))
      [] TypeOf(node) = "Or" -> distribute_or(node)
      [] OTHER -> ValueError

\* A wrong _distribute_or: the disjunction is turned into a conjunction.
distribute_or_as_and(node) ==
    Binary("And", distribute_or_over_and(node[2]), distribute_or_over_and(node[3]))

distribute_or(node) ==
    LET left == distribute_or_over_and(node[2])
        right == distribute_or_over_and(node[3])
    IN  IF Raised(left) THEN left
        ELSE IF Raised(right) THEN right
        ELSE IF TypeOf(right) = "And"
        THEN Binary("And", distribute_or_over_and(Or(left, right[2])),
                           distribute_or_over_and(Or(left, right[3])))
        ELSE IF TypeOf(left) = "And"
        THEN Binary("And", distribute_or_over_and(Or(left[2], right)),
                           distribute_or_over_and(Or(left[3], right)))
        ELSE Or(left, right)

\* preprocessing._is_literal
is_literal(node) ==
    \/ TypeOf(node) = "Variable"
    \/ (TypeOf(node) = "Not" /\ TypeOf(node[2]) = "Variable")

\* A Literal returned by formula_to_literal, or the ValueError raised.
LiteralResult(literal) == [raised |-> FALSE, literal |-> literal]
LiteralValueError == [raised |-> TRUE, literal |-> Literal("", FALSE)]

\* A wrong formula_to_literal: every Not node is taken for a negated variable.
formula_to_literal_unchecked(node) ==
    IF TypeOf(node) = "Variable"
    THEN LiteralResult(Literal(node[2], FALSE))
    ELSE IF TypeOf(node) = "Not"
    THEN LiteralResult(Literal(node[2][2], TRUE))
    ELSE LiteralValueError

\* preprocessing.formula_to_literal
formula_to_literal(node) ==
    IF TypeOf(node) = "Variable"
    THEN LiteralResult(Literal(node[2], FALSE))
    ELSE IF TypeOf(node) = "Not" /\ TypeOf(node[2]) = "Variable"
    THEN LiteralResult(Literal(node[2][2], TRUE))
    ELSE LiteralValueError

\* preprocessing.extract_literals_from_or: the while loop over its stack
RECURSIVE extract_literals_loop(_, _)
extract_literals_loop(stack, literals) ==
    IF Len(stack) = 0 THEN CNFResult(literals)
    ELSE LET current == stack[Len(stack)]
             rest == SubSeq(stack, 1, Len(stack) - 1)
         IN  IF is_literal(current)
             THEN extract_literals_loop(rest, Append(literals, formula_to_literal(current).literal))
             ELSE IF TypeOf(current) = "Or"
             THEN extract_literals_loop(rest \o <<current[3], current[2]>>, literals)
             ELSE CNFValueError

extract_literals_from_or(node) == extract_literals_loop(<<node>>, <<>>)

\* preprocessing.formula_to_cnf_format
RECURSIVE formula_to_cnf_format(_)
formula_to_cnf_format(node) ==
    IF is_literal(node)
    THEN CNFResult(<<<<formula_to_literal(node).literal>>>>)
    ELSE IF TypeOf(node) = "Or"
    THEN LET literals == extract_literals_from_or(node)
         IN  IF literals.raised THEN CNFValueError ELSE CNFResult(<<literals.clauses>>)
    ELSE IF TypeOf(node) = "And"
    THEN LET left_cnf == formula_to_cnf_format(node[2])
             right_cnf == formula_to_cnf_format(node[3])
         IN  IF left_cnf.raised \/ right_cnf.raised THEN CNFValueError
             ELSE CNFResult(left_cnf.clauses \o right_cnf.clauses)
    ELSE CNFValueError

\* preprocessing.to_nnf
to_nnf(node) ==
    LET without_implications == eliminate_implications(node)
    IN  IF Raised(without_implications) THEN ValueError
        ELSE push_negations_inward(without_implications)

\* preprocessing.to_cnf
to_cnf(node) ==
    LET nnf_formula == to_nnf(node)
        cnf_formula == distribute_or_over_and(nnf_formula)
    IN  IF Raised(nnf_formula) \/ Raised(cnf_formula) THEN CNFValueError
        ELSE formula_to_cnf_format(cnf_formula)

\* A wrong _fresh_z_variable: the name is made before z_counter is incremented,
\* so that the auxiliary variables are numbered from 0.
fresh_z_variable_from_zero(z_counter) == "z_" \o ToString(z_counter - 1)

\* TseytinTransformer._fresh_z_variable, given the incremented z_counter
fresh_z_variable(z_counter) == "z_" \o ToString(z_counter)

\* TseytinTransformer._var_or_negated_var
var_or_negated_var(original_formula, var_name) ==
    IF TypeOf(original_formula) = "Not" THEN Not(Variable(var_name)) ELSE Variable(var_name)

\* The state of a TseytinTransformer with the value _process_formula returned.
Processed(raised, var, z_counter, biconditionals) ==
    [raised |-> raised, var |-> var, z_counter |-> z_counter,
     biconditionals |-> biconditionals]

\* TseytinTransformer._process_formula
RECURSIVE process_formula(_, _, _)
process_formula(node, z_counter, biconditionals) ==
    IF TypeOf(node) = "Variable"
    THEN Processed(FALSE, node[2], z_counter, biconditionals)
    ELSE IF TypeOf(node) = "Not"
    THEN IF TypeOf(node[2]) = "Variable"
         THEN Processed(FALSE, node[2][2], z_counter, biconditionals)
         ELSE Processed(TRUE, "", z_counter, biconditionals)
    ELSE IF TypeOf(node) \in {"And", "Or"}
    THEN LET z_var == fresh_z_variable(z_counter + 1)
             left == process_formula(node[2], z_counter + 1, biconditionals)
             right == process_formula(node[3], left.z_counter, left.biconditionals)
             processed_formula ==
                 <<TypeOf(node), var_or_negated_var(node[2], left.var),
                                 var_or_negated_var(node[3], right.var)>>
         IN  IF left.raised THEN left
             ELSE IF right.raised THEN right
             ELSE Processed(FALSE, z_var, right.z_counter,
                            Append(right.biconditionals,
                                   Biconditional(Variable(z_var), processed_formula)))
    ELSE Processed(TRUE, "", z_counter, biconditionals)

\* TseytinTransformer.extract_biconditionals
extract_biconditionals(node) == process_formula(node, 0, <<>>)

\* the loop of to_cnf_tseytin over the biconditionals
RECURSIVE biconditional_clauses(_, _, _)
biconditional_clauses(biconditionals, k, all_clauses) ==
    IF k > Len(biconditionals) THEN CNFResult(all_clauses)
    ELSE LET biconditional_cnf == to_cnf(biconditionals[k])
         IN  IF biconditional_cnf.raised THEN CNFValueError
             ELSE biconditional_clauses(biconditionals, k + 1,
                                        all_clauses \o biconditional_cnf.clauses)

\* preprocessing.to_cnf_tseytin
to_cnf_tseytin(node) ==
    LET nnf_formula == to_nnf(node)
        extracted == extract_biconditionals(nnf_formula)
        all_clauses == biconditional_clauses(extracted.biconditionals, 1, <<>>)
    IN  IF Raised(nnf_formula) \/ extracted.raised \/ all_clauses.raised
        THEN CNFValueError
        ELSE CNFResult(Append(all_clauses.clauses, <<Literal(extracted.var, FALSE)>>))

\* The input formulas: the formulas over the names with exactly k connectives.
BinaryOperators == {"And", "Or", "Implies", "Biconditional"}

\* The trees with exactly k connectives over the given leaves.
RECURSIVE TreesOfSize(_, _)
TreesOfSize(leaves, k) ==
    IF k = 0 THEN leaves
    ELSE {Not(operand) : operand \in TreesOfSize(leaves, k - 1)}
         \cup UNION {{<<operator_class, left, right>> :
                          operator_class \in BinaryOperators,
                          left \in TreesOfSize(leaves, i),
                          right \in TreesOfSize(leaves, k - 1 - i)} : i \in 0..(k - 1)}

Trees(leaves, n) == UNION {TreesOfSize(leaves, k) : k \in 0..n}

Formulas(names, n) == Trees({Variable(name) : name \in names}, n)

\* A logic_ast.Literal object in the place of a formula node: a Formula
\* subclass that no transformation_map has.
UnknownNode == <<"Literal", VarNames[1], FALSE>>
Leaves == {Variable(VarNames[1]), Variable(VarNames[2]), UnknownNode}

FormulaNames == {VarNames[1], VarNames[2]}
CapturedNames == {VarNames[1], fresh_z_variable(1)}

\* ------------------------------------------------------------------ actions

\* DPLLSolver.__init__ and CDCLSolver.__init__ on an input formula
InitSolvers(formulas) ==
    /\ cnf \in formulas
    /\ dpll_assignment = EmptyDict
    /\ dpll_stack = <<>>
    /\ dpll_arg = EmptyDict
    /\ dpll_ret = NoResult
    /\ dpll_pc = "call"
    /\ dpll_result = NoResult
    /\ assignment = EmptyDict
    /\ decision_stack = <<>>
    /\ learned_clauses = <<>>
    /\ decision_level = 0
    /\ implication_graph = EmptyDict
    /\ conflict_clause = None
    /\ cdcl_pc = "propagate"
    /\ cdcl_result = NoResult

\* The parser and the DIMACS reader before any of them is called on the input.
InitReaders(texts, contents) ==
    /\ text \in texts
    /\ tokens = [raised |-> FALSE, tokens |-> <<>>]
    /\ parsed = [raised |-> FALSE, formula |-> <<>>, position |-> 0]
    /\ dimacs_content \in contents
    /\ dimacs_result = [raised |-> FALSE, clauses |-> <<>>]
    /\ read_done = {}

\* The preprocessing functions before any of them is called on the input.
InitPreprocessing(formulas) ==
    /\ input_formula \in formulas
    /\ pre_done = {}
    /\ nnf = input_formula
    /\ classical = CNFResult(<<>>)
    /\ tseytin = CNFResult(<<>>)
    /\ step_result = EmptyDict

Init ==
    /\ InitSolvers(CNFFormulas)
    /\ InitPreprocessing({Variable(VarNames[1])})
    /\ InitReaders({<<>>}, {<<>>})

\* A call of DPLLSolver._dpll(dpll_arg), up to its return or its first
\* recursive call (lines 69-89).
DPLLCall ==
    /\ dpll_pc = "call"
    /\ LET propagation == DPLL_unit_propagation(dpll_arg)
           current_assignment == pure_literal_elimination(propagation.assignment)
           candidates == DPLL_choose_variable(current_assignment)
       IN  IF ~propagation.ok
           THEN /\ dpll_ret' = UNSAT
                /\ dpll_pc' = "return"
                /\ UNCHANGED <<dpll_assignment, dpll_stack, dpll_arg, dpll_result>>
           ELSE IF all_clauses_satisfied(current_assignment)
           THEN /\ dpll_assignment' = current_assignment
                /\ dpll_ret' = SAT
                /\ dpll_pc' = "return"
                /\ UNCHANGED <<dpll_stack, dpll_arg, dpll_result>>
           ELSE IF candidates = {}
           THEN /\ dpll_result' = RuntimeError
                /\ dpll_pc' = "done"
                /\ UNCHANGED <<dpll_assignment, dpll_stack, dpll_arg, dpll_ret>>
           ELSE \E branch_variable \in candidates :
                /\ dpll_stack' = Append(dpll_stack,
                                        [current_assignment |-> current_assignment,
                                         branch_variable |-> branch_variable,
                                         branch |-> "positive"])
                /\ dpll_arg' = DictSet(current_assignment, branch_variable, TRUE)
                /\ dpll_pc' = "call"
                /\ UNCHANGED <<dpll_assignment, dpll_ret, dpll_result>>
    /\ UNCHANGED <<read_vars, pre_vars, cnf, cdcl_vars>>

\* A wrong return to the caller: the dictionary is shared with the callee
\* and not copied, so the negative branch starts from the assignment the
\* failed call was given.
DPLLReturnSharingAssignment ==
    /\ dpll_pc = "return"
    /\ Len(dpll_stack) > 0
    /\ LET frame == dpll_stack[Len(dpll_stack)]
       IN  IF frame.branch = "positive" /\ dpll_ret # SAT
           THEN /\ dpll_stack' = [dpll_stack EXCEPT ![Len(dpll_stack)].branch = "negative"]
                /\ dpll_arg' = DictSet(dpll_arg, frame.branch_variable, FALSE)
                /\ dpll_pc' = "call"
                /\ UNCHANGED dpll_ret
           ELSE /\ dpll_stack' = SubSeq(dpll_stack, 1, Len(dpll_stack) - 1)
                /\ dpll_pc' = "return"
                /\ UNCHANGED <<dpll_arg, dpll_ret>>
    /\ UNCHANGED <<read_vars, pre_vars, cnf, dpll_assignment, dpll_result, cdcl_vars>>

\* A recursive call of _dpll returned dpll_ret to the call on top of the
\* stack (lines 89-95).
DPLLReturn ==
    /\ dpll_pc = "return"
    /\ Len(dpll_stack) > 0
    /\ LET frame == dpll_stack[Len(dpll_stack)]
       IN  IF frame.branch = "positive" /\ dpll_ret # SAT
           THEN /\ dpll_stack' = [dpll_stack EXCEPT ![Len(dpll_stack)].branch = "negative"]
                /\ dpll_arg' = DictSet(frame.current_assignment, frame.branch_variable, FALSE)
                /\ dpll_pc' = "call"
                /\ UNCHANGED dpll_ret
           ELSE /\ dpll_stack' = SubSeq(dpll_stack, 1, Len(dpll_stack) - 1)
                /\ dpll_pc' = "return"
                /\ UNCHANGED <<dpll_arg, dpll_ret>>
    /\ UNCHANGED <<read_vars, pre_vars, cnf, dpll_assignment, dpll_result, cdcl_vars>>

\* DPLLSolver.solve returns what the outermost _dpll call returned.
DPLLSolve ==
    /\ dpll_pc = "return"
    /\ Len(dpll_stack) = 0
    /\ dpll_result' = dpll_ret
    /\ dpll_pc' = "done"
    /\ UNCHANGED <<read_vars, pre_vars, cnf, dpll_assignment, dpll_stack, dpll_arg, dpll_ret, cdcl_vars>>

current_state == CDCLState(assignment, decision_stack, implication_graph)

\* CDCLSolver.solve, line 643: conflict_clause = self._unit_propagation()
CDCLUnitPropagation ==
    /\ dpll_pc = "done"
    /\ cdcl_pc = "propagate"
    /\ LET propagation ==
               CDCL_unit_propagation(cnf \o learned_clauses, current_state, decision_level)
       IN  /\ assignment' = propagation.state.assignment
           /\ decision_stack' = propagation.state.decision_stack
           /\ implication_graph' = propagation.state.implication_graph
           /\ conflict_clause' = propagation.conflict
           /\ cdcl_pc' = IF propagation.conflict.is_none THEN "decide" ELSE "conflict"
    /\ UNCHANGED <<read_vars, pre_vars, cnf, dpll_vars, learned_clauses, decision_level, cdcl_result>>

\* The clause CDCLSolver._handle_conflict learns from conflict_clause.
learned_clause ==
    analyze_conflict(conflict_clause.clause, decision_stack, implication_graph, decision_level)

\* A wrong _handle_conflict: the learned clause is appended to the clause list
\* of the input formula.
learn_into_formula(formula, learned, clause) ==
    [cnf |-> Append(formula, clause), learned_clauses |-> learned]

\* CDCLSolver._handle_conflict, self.learned_clauses.append(learned_clause):
\* the clause lists of the input formula and of the solver after it.
learn(formula, learned, clause) ==
    [cnf |-> formula,
     learned_clauses |-> IF Len(learned) < MaxLearned
                         THEN Append(learned, clause)
                         ELSE learned]

\* CDCLSolver.solve, lines 645-649: self._handle_conflict(conflict_clause).
\* learned_clauses is represented up to MaxLearned clauses; at that length a
\* clause equal to the last one is not stored a second time (a scan reaches
\* the copy right after its twin, which it then evaluates the same way).
CDCLHandleConflict ==
    /\ dpll_pc = "done"
    /\ cdcl_pc = "conflict"
    /\ IF Len(learned_clauses) < MaxLearned
       THEN TRUE
       ELSE learned_clauses[Len(learned_clauses)] = learned_clause
    /\ cnf' = learn(cnf, learned_clauses, learned_clause).cnf
    /\ learned_clauses' = learn(cnf, learned_clauses, learned_clause).learned_clauses
    /\ IF decision_level = 0
       THEN /\ cdcl_result' = UNSAT
            /\ cdcl_pc' = "done"
            /\ UNCHANGED <<assignment, decision_stack, implication_graph, decision_level>>
       ELSE LET backjump_level == backjump(learned_clause, implication_graph)
                back == backtrack_to_level(current_state, decision_level, backjump_level)
                raises == backtrack_raises_KeyError(current_state, decision_level,
                                                    backjump_level)
            IN  /\ assignment' = back.state.assignment
                /\ decision_stack' = back.state.decision_stack
                /\ implication_graph' = back.state.implication_graph
                /\ decision_level' = back.decision_level
                /\ cdcl_pc' = IF raises THEN "done" ELSE "propagate"
                /\ cdcl_result' = IF raises THEN KeyError ELSE cdcl_result
    /\ UNCHANGED <<read_vars, pre_vars, dpll_vars, conflict_clause>>

\* CDCLSolver.solve, lines 652-653: self._make_next_decision(), SAT if it
\* finds no unassigned variable.
CDCLMakeNextDecision ==
    /\ dpll_pc = "done"
    /\ cdcl_pc = "decide"
    /\ LET variable == CDCL_choose_variable(cnf \o learned_clauses, assignment)
           decided == make_decision(current_state, decision_level + 1, variable, TRUE)
       IN  IF variable = NoVariable
           THEN /\ cdcl_result' = SAT
                /\ cdcl_pc' = "done"
                /\ UNCHANGED <<assignment, decision_stack, implication_graph, decision_level>>
           ELSE /\ decision_level' = decision_level + 1
                /\ assignment' = decided.assignment
                /\ decision_stack' = decided.decision_stack
                /\ implication_graph' = decided.implication_graph
                /\ cdcl_pc' = "propagate"
                /\ UNCHANGED cdcl_result
    /\ UNCHANGED <<read_vars, pre_vars, cnf, dpll_vars, learned_clauses, conflict_clause>>

Next ==
    \/ DPLLCall
    \/ DPLLReturn
    \/ DPLLSolve
    \/ CDCLUnitPropagation
    \/ CDCLHandleConflict
    \/ CDCLMakeNextDecision

Spec == Init /\ [][Next]_vars

\* Both solvers are loops of one thread: a step that can run does run.
\* Termination is checked on the inputs of at most MaxClauses - 1 clauses.
InitLive ==
    /\ InitSolvers(LiveFormulas)
    /\ InitPreprocessing({Variable(VarNames[1])})
    /\ InitReaders({<<>>}, {<<>>})
FairSpec == InitLive /\ [][Next]_vars /\ WF_vars(Next)

\* A call of to_nnf(input_formula)
ToNnf ==
    /\ "to_nnf" \notin pre_done
    /\ nnf' = to_nnf(input_formula)
    /\ pre_done' = pre_done \cup {"to_nnf"}
    /\ UNCHANGED <<input_formula, classical, tseytin, step_result, cnf, dpll_vars, cdcl_vars, read_vars>>

\* A call of to_cnf(input_formula)
ToCnf ==
    /\ "to_cnf" \notin pre_done
    /\ classical' = to_cnf(input_formula)
    /\ pre_done' = pre_done \cup {"to_cnf"}
    /\ UNCHANGED <<input_formula, nnf, tseytin, step_result, cnf, dpll_vars, cdcl_vars, read_vars>>

\* A call of to_cnf_tseytin(input_formula)
ToCnfTseytin ==
    /\ "to_cnf_tseytin" \notin pre_done
    /\ tseytin' = to_cnf_tseytin(input_formula)
    /\ pre_done' = pre_done \cup {"to_cnf_tseytin"}
    /\ UNCHANGED <<input_formula, nnf, classical, step_result, cnf, dpll_vars, cdcl_vars, read_vars>>

NextPre ==
    \/ ToNnf
    \/ ToCnf
    \/ ToCnfTseytin

\* The preprocessing functions on the formulas over two variable names.
InitPre ==
    /\ InitSolvers({<<>>})
    /\ InitPreprocessing(Formulas(FormulaNames, MaxOps))
    /\ InitReaders({<<>>}, {<<>>})
SpecPre == InitPre /\ [][NextPre]_vars

\* A call of one preprocessing step on input_formula: its result is stored
\* under the step's name.
Step(name, result) ==
    /\ name \notin DOMAIN step_result
    /\ step_result' = DictSet(step_result, name, result)
    /\ UNCHANGED <<input_formula, pre_done, nnf, classical, tseytin, cnf, dpll_vars, cdcl_vars, read_vars>>

EliminateImplications ==
    Step("eliminate_implications", eliminate_implications(input_formula))

\* push_negations_inward on input_formula, on its result, and on the double
\* negation of input_formula
PushNegationsInward ==
    Step("push_negations_inward",
         [once |-> push_negations_inward(input_formula),
          twice |-> push_negations_inward(push_negations_inward(input_formula)),
          double_negation |-> push_negations_inward(Not(Not(input_formula)))])

DistributeOrOverAnd ==
    Step("distribute_or_over_and", distribute_or_over_and(input_formula))

FormulaToCnfFormat ==
    Step("formula_to_cnf_format", formula_to_cnf_format(input_formula))

ExtractLiteralsFromOr ==
    Step("extract_literals_from_or", extract_literals_from_or(input_formula))

FormulaToLiteral ==
    Step("formula_to_literal", formula_to_literal(input_formula))

NextSteps ==
    \/ EliminateImplications
    \/ PushNegationsInward
    \/ DistributeOrOverAnd
    \/ FormulaToCnfFormat
    \/ ExtractLiteralsFromOr
    \/ FormulaToLiteral

\* The single preprocessing steps on the trees over two variables and a node
\* of a class that is none of the six formula classes.
InitSteps ==
    /\ InitSolvers({<<>>})
    /\ InitPreprocessing(Trees(Leaves, MaxOps))
    /\ InitReaders({<<>>}, {<<>>})
SpecSteps == InitSteps /\ [][NextSteps]_vars

\* The preprocessing functions on formulas that use the name of the first
\* auxiliary variable as one of their own.
InitPreZ ==
    /\ InitSolvers({<<>>})
    /\ InitPreprocessing(Formulas(CapturedNames, MaxOps))
    /\ InitReaders({<<>>}, {<<>>})
SpecPreZ == InitPreZ /\ [][NextPre]_vars

\* ------------------------------------------------------------------ parser

\* The characters of an input text are strings of length one; the five
\* Unicode connectives go by their code points.
NotSign == "U+00AC"
AndSign == "U+2227"
OrSign == "U+2228"
ImpliesSign == "U+2192"
IffSign == "U+2194"

\* The letters and the digits among the characters of the input texts.
Letters == {"p", "x", "n", "o", "t", "a", "d", "r"}
Digits == {"1"}

\* str.isspace, str.isalpha and str.isdigit on one character
isspace(char) == char = " "
isalpha(char) == char \in Letters
isdigit(char) == char \in Digits

\* str.isalpha on a token: it is not empty and all its characters are letters
token_isalpha(token) ==
    /\ token # <<>>
    /\ \A k \in 1..Len(token) : isalpha(token[k])

\* The tokens Parser compares peek() with: ["¬", "not"], ["∧", "and"], ...
NotTokens == {<<NotSign>>, <<"n", "o", "t">>}
AndTokens == {<<AndSign>>, <<"a", "n", "d">>}
OrTokens == {<<OrSign>>, <<"o", "r">>}
ImpliesTokens == {<<ImpliesSign>>, <<"-", ">">>}
BiconditionalTokens == {<<IffSign>>, <<"<", "-", ">">>}

\* What tokenize returns: the tokens, or the ValueError it raised.
TokenizeResult(token_list) == [raised |-> FALSE, tokens |-> token_list]
TokenizeValueError == [raised |-> TRUE, tokens |-> <<>>]

\* The inner loop of tokenize: the index after the identifier that starts at i.
RECURSIVE identifier_end(_, _)
identifier_end(formula, i) ==
    IF i <= Len(formula) /\ (isalpha(formula[i]) \/ isdigit(formula[i]))
    THEN identifier_end(formula, i + 1)
    ELSE i

\* The outer loop of tokenize from the (1-based) index i on.
RECURSIVE tokenize_from(_, _, _)
tokenize_from(formula, i, token_list) ==
    IF i > Len(formula) THEN TokenizeResult(token_list)
    ELSE LET char == formula[i]
         IN  IF isspace(char)
             THEN tokenize_from(formula, i + 1, token_list)
             ELSE IF char \in {NotSign, AndSign, OrSign, ImpliesSign, IffSign, "(", ")"}
             THEN tokenize_from(formula, i + 1, Append(token_list, <<char>>))
             ELSE IF isalpha(char)
             THEN tokenize_from(formula, identifier_end(formula, i),
                                Append(token_list, SubSeq(formula, i, identifier_end(formula, i) - 1)))
             ELSE IF char = "-" /\ i + 1 <= Len(formula) /\ formula[i + 1] = ">"
             THEN tokenize_from(formula, i + 2, Append(token_list, <<"-", ">">>))
             ELSE IF /\ char = "<"
                     /\ i + 2 <= Len(formula)
                     /\ SubSeq(formula, i + 1, i + 2) = <<"-", ">">>
             THEN tokenize_from(formula, i + 3, Append(token_list, <<"<", "-", ">">>))
             ELSE TokenizeValueError

\* tokenize
tokenize(formula) == tokenize_from(formula, 1, <<>>)

\* Parser.peek: the token at `position` (0-based), or NoToken for None
NoToken == <<>>
peek(token_list, position) ==
    IF position < Len(token_list) THEN token_list[position + 1] ELSE NoToken

\* What a parse method returns: the formula and the parser's position after
\* it, or the ValueError it raised.
ParseResult(node, position) == [raised |-> FALSE, formula |-> node, position |-> position]
ParseValueError == [raised |-> TRUE, formula |-> <<>>, position |-> 0]

RECURSIVE parse_biconditional(_, _)
RECURSIVE parse_biconditional_loop(_, _, _)
RECURSIVE parse_implication(_, _)
RECURSIVE parse_or(_, _)
RECURSIVE parse_or_loop(_, _, _)
RECURSIVE parse_and(_, _)
RECURSIVE parse_and_loop(_, _, _)
RECURSIVE parse_not(_, _)
RECURSIVE parse_primary(_, _)

\* Parser.parse_biconditional
parse_biconditional(token_list, position) ==
    LET left == parse_implication(token_list, position)
    IN  IF left.raised THEN ParseValueError
        ELSE parse_biconditional_loop(token_list, left.formula, left.position)

\* The while loop of Parser.parse_biconditional
parse_biconditional_loop(token_list, left, position) ==
    IF peek(token_list, position) \in BiconditionalTokens
    THEN LET right == parse_implication(token_list, position + 1)
         IN  IF right.raised THEN ParseValueError
             ELSE parse_biconditional_loop(token_list, Biconditional(left, right.formula),
                                           right.position)
    ELSE ParseResult(left, position)

\* A wrong parse_implication: the right operand is parsed by parse_or, so that
\* a chain of implications ends after its first arrow.
parse_implication_without_chain(token_list, position) ==
    LET left == parse_or(token_list, position)
    IN  IF left.raised THEN ParseValueError
        ELSE IF peek(token_list, left.position) \in ImpliesTokens
        THEN LET right == parse_or(token_list, left.position + 1)
             IN  IF right.raised THEN ParseValueError
                 ELSE ParseResult(Implies(left.formula, right.formula), right.position)
        ELSE left

\* Parser.parse_implication
parse_implication(token_list, position) ==
    LET left == parse_or(token_list, position)
    IN  IF left.raised THEN ParseValueError
        ELSE IF peek(token_list, left.position) \in ImpliesTokens
        THEN LET right == parse_implication(token_list, left.position + 1)
             IN  IF right.raised THEN ParseValueError
                 ELSE ParseResult(Implies(left.formula, right.formula), right.position)
        ELSE left

\* Parser.parse_or
parse_or(token_list, position) ==
    LET left == parse_and(token_list, position)
    IN  IF left.raised THEN ParseValueError
        ELSE parse_or_loop(token_list, left.formula, left.position)

\* The while loop of Parser.parse_or
parse_or_loop(token_list, left, position) ==
    IF peek(token_list, position) \in OrTokens
    THEN LET right == parse_and(token_list, position + 1)
         IN  IF right.raised THEN ParseValueError
             ELSE parse_or_loop(token_list, Or(left, right.formula), right.position)
    ELSE ParseResult(left, position)

\* Parser.parse_and
parse_and(token_list, position) ==
    LET left == parse_not(token_list, position)
    IN  IF left.raised THEN ParseValueError
        ELSE parse_and_loop(token_list, left.formula, left.position)

\* The while loop of Parser.parse_and
parse_and_loop(token_list, left, position) ==
    IF peek(token_list, position) \in AndTokens
    THEN LET right == parse_not(token_list, position + 1)
         IN  IF right.raised THEN ParseValueError
             ELSE parse_and_loop(token_list, And(left, right.formula), right.position)
    ELSE ParseResult(left, position)

\* Parser.parse_not
parse_not(token_list, position) ==
    IF peek(token_list, position) \in NotTokens
    THEN LET operand == parse_not(token_list, position + 1)
         IN  IF operand.raised THEN ParseValueError
             ELSE ParseResult(Not(operand.formula), operand.position)
    ELSE parse_primary(token_list, position)

\* Parser.parse_primary
parse_primary(token_list, position) ==
    LET token == peek(token_list, position)
    IN  IF token = <<"(">>
        THEN LET inner == parse_biconditional(token_list, position + 1)
             IN  IF inner.raised THEN ParseValueError
                 ELSE IF peek(token_list, inner.position) # <<")">> THEN ParseValueError
                 ELSE ParseResult(inner.formula, inner.position + 1)
        ELSE IF token # NoToken /\ token_isalpha(token)
        THEN ParseResult(Variable(token), position + 1)
        ELSE ParseValueError

\* parse: the formula, and the position of the Parser when it returned
parse(formula) ==
    IF tokenize(formula).raised THEN ParseValueError
    ELSE parse_biconditional(tokenize(formula).tokens, 0)

\* Input texts have at most MaxTokens words of SymbolWords, or at most
\* MaxWords words of AllWords, with one space between two words.
MaxTokens == 5
MaxWords == 3
SymbolWords == {<<char>> : char \in {"p", NotSign, AndSign, OrSign, ImpliesSign, IffSign, "(", ")"}}
AllWords == SymbolWords \cup NotTokens \cup AndTokens \cup OrTokens \cup ImpliesTokens
                \cup BiconditionalTokens \cup {<<"x", "1">>, <<"1">>}

RECURSIVE JoinWords(_)
JoinWords(words) ==
    IF words = <<>> THEN <<>>
    ELSE IF Len(words) = 1 THEN words[1]
    ELSE words[1] \o <<" ">> \o JoinWords(Tail(words))

Texts == {JoinWords(words) : words \in SeqsUpTo(SymbolWords, MaxTokens) \cup SeqsUpTo(AllWords, MaxWords)}

\* tokenize(text)
Tokenize ==
    /\ "tokenize" \notin read_done
    /\ tokens' = tokenize(text)
    /\ read_done' = read_done \cup {"tokenize"}
    /\ UNCHANGED <<text, parsed, dimacs_content, dimacs_result, cnf, dpll_vars, cdcl_vars, pre_vars>>

\* parse(text)
Parse ==
    /\ "parse" \notin read_done
    /\ parsed' = parse(text)
    /\ read_done' = read_done \cup {"parse"}
    /\ UNCHANGED <<text, tokens, dimacs_content, dimacs_result, cnf, dpll_vars, cdcl_vars, pre_vars>>

NextParse ==
    \/ Tokenize
    \/ Parse

InitParse ==
    /\ InitSolvers({<<>>})
    /\ InitPreprocessing({Variable(VarNames[1])})
    /\ InitReaders(Texts, {<<>>})
SpecParse == InitParse /\ [][NextParse]_vars

\* ------------------------------------------------------------------ DIMACS reader

\* The value of a decimal digit.
DigitValue(char) ==
    CASE char = "0" -> 0 [] char = "1" -> 1 [] char = "2" -> 2 [] char = "3" -> 3
      [] char = "4" -> 4 [] char = "5" -> 5 [] char = "6" -> 6 [] char = "7" -> 7
      [] char = "8" -> 8 [] char = "9" -> 9
DecimalDigits == {"0", "1", "2", "3", "4", "5", "6", "7", "8", "9"}

\* What int(string) returns: the integer, or the ValueError it raised.
IntResult(value) == [raised |-> FALSE, value |-> value]
IntValueError == [raised |-> TRUE, value |-> 0]

RECURSIVE digits_value(_, _)
digits_value(digits, value) ==
    IF digits = <<>> THEN value
    ELSE digits_value(Tail(digits), 10 * value + DigitValue(digits[1]))

\* int(string) on a string without whitespace: an optional sign and decimal digits
int(string) ==
    LET signed == string # <<>> /\ string[1] \in {"-", "+"}
        digits == IF signed THEN Tail(string) ELSE string
    IN  IF digits = <<>> \/ \E k \in 1..Len(digits) : digits[k] \notin DecimalDigits
        THEN IntValueError
        ELSE IF signed /\ string[1] = "-" THEN IntResult(0 - digits_value(digits, 0))
        ELSE IntResult(digits_value(digits, 0))

\* abs
abs(n) == IF n < 0 THEN 0 - n ELSE n

\* str(n) for a natural number n, as used by f"x{abs(lit_num)}"
RECURSIVE str(_)
str(n) ==
    LET digit == CHOOSE char \in DecimalDigits : DigitValue(char) = n % 10
    IN  IF n < 10 THEN <<digit>> ELSE str(n \div 10) \o <<digit>>

\* str.strip on a line
RECURSIVE strip(_)
strip(line) ==
    IF line = <<>> THEN line
    ELSE IF isspace(line[1]) THEN strip(Tail(line))
    ELSE IF isspace(line[Len(line)]) THEN strip(SubSeq(line, 1, Len(line) - 1))
    ELSE line

\* str.split(): the maximal runs of characters that are not whitespace
RECURSIVE split_from(_, _, _, _)
split_from(line, i, word, words) ==
    IF i > Len(line) THEN IF word = <<>> THEN words ELSE Append(words, word)
    ELSE IF isspace(line[i])
    THEN split_from(line, i + 1, <<>>, IF word = <<>> THEN words ELSE Append(words, word))
    ELSE split_from(line, i + 1, Append(word, line[i]), words)
split(line) == split_from(line, 1, <<>>, <<>>)

\* str.startswith
startswith(line, prefix) ==
    Len(line) >= Len(prefix) /\ SubSeq(line, 1, Len(prefix)) = prefix

\* The for loop over literals_str[:-1]: the literals of one clause line, or
\* the ValueError raised by int() or by the check against num_variables.
RECURSIVE dimacs_literals(_, _, _, _)
dimacs_literals(literals_str, k, num_variables, literals) ==
    IF k > Len(literals_str) THEN CNFResult(literals)
    ELSE LET lit_num == int(literals_str[k])
         IN  IF lit_num.raised THEN CNFValueError
             ELSE IF lit_num.value = 0 THEN CNFResult(literals)
             ELSE IF abs(lit_num.value) > num_variables THEN CNFValueError
             ELSE dimacs_literals(literals_str, k + 1, num_variables,
                                  Append(literals, Literal(<<"x">> \o str(abs(lit_num.value)),
                                                           lit_num.value < 0)))

\* The for loop over the lines, from line i on, and the final count check.
RECURSIVE dimacs_lines(_, _, _, _, _)
dimacs_lines(lines, i, num_variables, num_clauses, clauses) ==
    IF i > Len(lines)
    THEN IF Len(clauses) # num_clauses THEN CNFValueError ELSE CNFResult(clauses)
    ELSE LET line == strip(lines[i])
             parts == split(line)
             literals == dimacs_literals(SubSeq(parts, 1, Len(parts) - 1), 1, num_variables, <<>>)
         IN  IF line = <<>> \/ startswith(line, <<"c">>) \/ line = <<"%">>
             THEN dimacs_lines(lines, i + 1, num_variables, num_clauses, clauses)
             ELSE IF startswith(line, <<"p", " ", "c", "n", "f">>)
             THEN IF Len(parts) # 4 THEN CNFValueError
                  ELSE IF int(parts[3]).raised \/ int(parts[4]).raised THEN CNFValueError
                  ELSE dimacs_lines(lines, i + 1, int(parts[3]).value, int(parts[4]).value, clauses)
             ELSE IF line = <<"0">>
             THEN dimacs_lines(lines, i + 1, num_variables, num_clauses, clauses)
             ELSE IF parts = <<>> \/ parts[Len(parts)] # <<"0">> THEN CNFValueError
             ELSE IF literals.raised THEN CNFValueError
             ELSE dimacs_lines(lines, i + 1, num_variables, num_clauses,
                               IF literals.clauses # <<>> THEN Append(clauses, literals.clauses)
                               ELSE clauses)

\* parse_dimacs_string, on the lines of dimacs_content.strip().split('\n')
parse_dimacs_string(lines) == dimacs_lines(lines, 1, 0, 0, <<>>)

\* The input is a first line of HeaderLines followed by at most MaxClauseLines
\* lines of at most MaxFields words of NumberWords, a comment, a % or a blank line.
MaxClauseLines == 2
MaxFields == 4
Line(words) == JoinWords(words)
HeaderLines ==
    {Line(<<<<"p">>, <<"c", "n", "f">>, <<"1">>, <<"1">>>>),
     Line(<<<<"p">>, <<"c", "n", "f">>, <<"3">>, <<"2">>>>),
     Line(<<<<"p">>, <<"c", "n", "f">>, <<"2">>>>),
     Line(<<<<"p">>, <<"c", "n", "f">>, <<"x">>, <<"1">>>>),
     Line(<<<<"p">>, <<"d", "n", "f">>, <<"2">>, <<"1">>>>),
     Line(<<<<"p">>, <<"c", "n", "f", "x">>, <<"2">>, <<"1">>>>)}
NumberWords == {<<"0">>, <<"-", "1">>, <<"3">>}
BodyLines ==
    {Line(words) : words \in SeqsUpTo(NumberWords, MaxFields)}
        \cup {Line(<<<<"c">>, <<"x">>>>), <<"%">>}
Contents == {<<header>> \o body : header \in HeaderLines, body \in SeqsUpTo(BodyLines, MaxClauseLines)}

\* parse_dimacs_string(dimacs_content)
ParseDimacsString ==
    /\ "parse_dimacs_string" \notin read_done
    /\ dimacs_result' = parse_dimacs_string(dimacs_content)
    /\ read_done' = read_done \cup {"parse_dimacs_string"}
    /\ UNCHANGED <<text, tokens, parsed, dimacs_content, cnf, dpll_vars, cdcl_vars, pre_vars>>

NextDimacs == ParseDimacsString

InitDimacs ==
    /\ InitSolvers({<<>>})
    /\ InitPreprocessing({Variable(VarNames[1])})
    /\ InitReaders({<<>>}, Contents)
SpecDimacs == InitDimacs /\ [][NextDimacs]_vars

\* ------------------------------------------------------------------ semantics

\* The variables that occur in a CNF formula.
formula_variables(formula) ==
    UNION {{formula[c][i].variable : i \in 1..Len(formula[c])} : c \in 1..Len(formula)}

\* An assignment satisfies a clause: some literal's variable is assigned and
\* its value equals (not negated).
Satisfies(a, clause) ==
    \E i \in 1..Len(clause) :
        clause[i].variable \in DOMAIN a /\ a[clause[i].variable] = ~clause[i].negated

SatisfiesAll(a, formula) == \A c \in 1..Len(formula) : Satisfies(a, formula[c])

TotalAssignments(variables) == [variables -> BOOLEAN]

Satisfiable(formula) ==
    \E a \in TotalAssignments(formula_variables(formula)) : SatisfiesAll(a, formula)

\* Every total assignment that satisfies the formula satisfies the clause.
Entails(formula, clause) ==
    \A a \in TotalAssignments(formula_variables(formula) \cup formula_variables(<<clause>>)) :
        SatisfiesAll(a, formula) => Satisfies(a, clause)

\* The variables that occur in a formula.
RECURSIVE variables_of(_)
variables_of(node) ==
    IF TypeOf(node) = "Variable" THEN {node[2]}
    ELSE IF TypeOf(node) = "Not" THEN variables_of(node[2])
    ELSE variables_of(node[2]) \cup variables_of(node[3])

\* The truth value of a formula under an assignment of its variables.
RECURSIVE Eval(_, _)
Eval(node, a) ==
    CASE TypeOf(node) = "Variable" -> a[node[2]]
      [] TypeOf(node) = "Not" -> ~Eval(node[2], a)
      [] TypeOf(node) = "And" -> Eval(node[2], a) /\ Eval(node[3], a)
      [] TypeOf(node) = "Or" -> Eval(node[2], a) \/ Eval(node[3], a)
      [] TypeOf(node) = "Implies" -> Eval(node[2], a) => Eval(node[3], a)
      [] TypeOf(node) = "Biconditional" -> Eval(node[2], a) <=> Eval(node[3], a)

FormulaSatisfiable(node) == \E a \in TotalAssignments(variables_of(node)) : Eval(node, a)

\* The restriction of an assignment to a set of variables.
Restrict(a, variables) == [v \in variables |-> a[v]]

\* A clause that repeats a literal.
HasRepeatedLiteral(clause) ==
    \E i, j \in 1..Len(clause) : i < j /\ clause[i] = clause[j]

\* ------------------------------------------------------------------ claims

\* C1: if DPLLSolver.solve() or CDCLSolver.solve() returns SAT, the assignment
\* that solver exposes satisfies every clause of the input formula.
C1_SatAssignmentSatisfies ==
    /\ dpll_result = SAT => SatisfiesAll(dpll_assignment, cnf)
    /\ cdcl_result = SAT => SatisfiesAll(assignment, cnf)

\* Both solvers returned SAT on a formula of at least two clauses, CDCL after
\* it learned a clause and made a decision.
C1_Witness ==
    /\ dpll_result = SAT
    /\ cdcl_result = SAT
    /\ Len(cnf) >= 2
    /\ Len(learned_clauses) >= 1
    /\ decision_level >= 1

\* C2: if DPLLSolver.solve() or CDCLSolver.solve() returns UNSAT, no total
\* assignment of the formula's variables satisfies every clause.
C2_UnsatIsUnsatisfiable ==
    /\ dpll_result = UNSAT => ~Satisfiable(cnf)
    /\ cdcl_result = UNSAT => ~Satisfiable(cnf)

\* Both solvers returned UNSAT on a formula without an empty clause and without
\* a unit clause: DPLL had to branch and CDCL learned from a decision.
C2_Witness ==
    /\ dpll_result = UNSAT
    /\ cdcl_result = UNSAT
    /\ \A c \in 1..Len(cnf) : Len(cnf[c]) = 2 /\ ~HasRepeatedLiteral(cnf[c])
    /\ Len(learned_clauses) >= 2

\* C3: for every finite CNF formula CDCLSolver.solve() terminates and returns
\* SAT or UNSAT, also when a clause repeats a literal.
C3_CDCLTerminates == <>(cdcl_result \in {SAT, UNSAT})

\* Every active _dpll call branched on a variable that the assignment it
\* extended had left unassigned, and no more calls are nested than the
\* formula has variables.
DPLLDepthBounded ==
    /\ Len(dpll_stack) <= Cardinality(formula_variables(cnf))
    /\ \A k \in 1..Len(dpll_stack) :
           /\ dpll_stack[k].branch_variable \in formula_variables(cnf)
           /\ dpll_stack[k].branch_variable \notin DOMAIN dpll_stack[k].current_assignment
           /\ k > 1 => dpll_stack[k - 1].branch_variable \in DOMAIN dpll_stack[k].current_assignment

\* The largest number of steps a _dpll call takes until it has returned, when
\* d calls are active below it and the formula has n variables: one step if it
\* cannot branch, else its own three steps and two recursive calls.
RECURSIVE DPLLWork(_, _)
DPLLWork(d, n) == IF d >= n THEN 1 ELSE 3 + 2 * DPLLWork(d + 1, n)

\* The steps left to the active call at position k once its callee returns.
RECURSIVE DPLLPending(_, _)
DPLLPending(k, n) ==
    IF k = 0 THEN 0
    ELSE DPLLPending(k - 1, n)
         + (IF dpll_stack[k].branch = "positive" THEN 2 + DPLLWork(k, n) ELSE 1)

\* A bound on the number of steps DPLLSolver.solve() still takes.
DPLLMeasure ==
    LET n == Cardinality(formula_variables(cnf))
    IN  (IF dpll_pc = "call" THEN DPLLWork(Len(dpll_stack), n) ELSE 0)
        + DPLLPending(Len(dpll_stack), n)
        + (IF dpll_pc = "done" THEN 0 ELSE 1)

\* Until DPLLSolver.solve() has returned it can take a step: a _dpll call runs
\* whenever dpll_pc = "call", and a return is taken by the caller on the stack
\* or else by solve() whenever dpll_pc = "return".
DPLLCanStep == dpll_pc \in {"call", "return", "done"}

\* C4: for every finite CNF formula DPLLSolver.solve() terminates and returns
\* SAT or UNSAT: every step of a run lowers a bound on the steps still to take,
\* until solve() has returned SAT or UNSAT; every recursive call branches on a
\* variable unassigned in the assignment it extends and the recursion is never
\* deeper than the number of variables of the formula.
C4_DPLLTerminates ==
    /\ [][dpll_pc # "done" => (DPLLMeasure' < DPLLMeasure /\ DPLLMeasure' >= 0)]_dpll_vars
    /\ [](/\ DPLLDepthBounded
          /\ DPLLCanStep
          /\ dpll_pc = "done" <=> dpll_result \in {SAT, UNSAT})

\* _dpll calls are nested as deep as the formula has variables, and the
\* innermost call has moved on to its second branch.
C4_Witness ==
    /\ Len(dpll_stack) >= 1
    /\ Len(dpll_stack) = Cardinality(formula_variables(cnf))
    /\ dpll_stack[Len(dpll_stack)].branch = "negative"

\* Whenever both solvers have returned, they returned the same decision.
AgreeWhenBothReturn ==
    (dpll_result # NoResult /\ cdcl_result # NoResult) => dpll_result = cdcl_result

\* Both solvers returned SAT and report different assignments.
BothReturnedSat ==
    /\ dpll_result = SAT
    /\ cdcl_result = SAT
    /\ dpll_assignment # assignment
    /\ formula_variables(cnf) = Vars

\* C5: DPLLSolver.solve() and CDCLSolver.solve() run on the same formula return
\* the same decision: DPLL returns SAT or UNSAT and CDCL returns that too.
C5_SameDecision ==
    <>(dpll_result \in {SAT, UNSAT} /\ cdcl_result = dpll_result)

\* No step of either solver raised an exception, and a solver that stopped
\* returned SAT or UNSAT.
NoExceptionRaised ==
    /\ dpll_result \in {NoResult, SAT, UNSAT}
    /\ cdcl_result \in {NoResult, SAT, UNSAT}
    /\ dpll_pc = "done" => dpll_result \in {SAT, UNSAT}
    /\ cdcl_pc = "done" => cdcl_result \in {SAT, UNSAT}

\* C6: no run of either solver raises an exception (in particular _dpll finds
\* an unassigned variable whenever it reaches the branching step), and every
\* run ends by returning SAT or UNSAT.
C6_NoException ==
    /\ []NoExceptionRaised
    /\ <>(dpll_result \in {SAT, UNSAT})
    /\ <>(cdcl_result \in {SAT, UNSAT})

\* C10: every clause in learned_clauses is entailed by the original clauses.
C10_LearnedEntailed ==
    \A k \in 1..Len(learned_clauses) : Entails(cnf, learned_clauses[k])

\* A learned clause of two literals that is none of the input clauses.
C10_Witness ==
    \E k \in 1..Len(learned_clauses) :
        /\ Len(learned_clauses[k]) = 2
        /\ \A c \in 1..Len(cnf) : cnf[c] # learned_clauses[k]

\* learned_clauses never blocks a run at its represented length.
LearnedRepresented ==
    (cdcl_pc = "conflict" /\ Len(learned_clauses) = MaxLearned)
        => learned_clauses[Len(learned_clauses)] = learned_clause


\* C7: for every formula F and every total assignment over the variables of F,
\* F is true under the assignment exactly when the assignment satisfies every
\* clause of to_cnf(F); to_cnf(F) has no variable that F does not have.
C7_ClassicalEquivalent ==
    "to_cnf" \in pre_done =>
        /\ ~classical.raised
        /\ formula_variables(classical.clauses) \subseteq variables_of(input_formula)
        /\ \A a \in TotalAssignments(variables_of(input_formula)) :
               Eval(input_formula, a) <=> SatisfiesAll(a, classical.clauses)

\* to_cnf ran on a negated biconditional of two variables: the negation was
\* pushed inward and a disjunction of two conjunctions was distributed.
C7_Witness ==
    /\ "to_cnf" \in pre_done
    /\ TypeOf(input_formula) = "Not"
    /\ TypeOf(input_formula[2]) = "Biconditional"
    /\ Cardinality(variables_of(input_formula)) = 2
    /\ Len(classical.clauses) = 4

\* C8: a formula F is satisfiable if and only if to_cnf_tseytin(F) is.
C8_Equisatisfiable ==
    "to_cnf_tseytin" \in pre_done =>
        /\ ~tseytin.raised
        /\ FormulaSatisfiable(input_formula) <=> Satisfiable(tseytin.clauses)

\* C9: the restriction to the variables of F of every total assignment that
\* satisfies to_cnf_tseytin(F) satisfies F.
C9_ProjectionSatisfies ==
    "to_cnf_tseytin" \in pre_done =>
        \A a \in TotalAssignments(formula_variables(tseytin.clauses)
                                  \cup variables_of(input_formula)) :
            SatisfiesAll(a, tseytin.clauses) =>
                Eval(input_formula, Restrict(a, variables_of(input_formula)))

\* C11: whenever _analyze_conflict returns at decision_level > 0, at most one
\* literal of the clause it returns has its variable assigned at the current
\* decision level, also when the conflict clause repeats a literal.
C11_AtMostOneCurrentLevelLiteral ==
    (cdcl_pc = "conflict" /\ decision_level > 0) =>
        count_current_level_variables(learned_clause, implication_graph, decision_level) <= 1

\* The same for the conflicts in which neither the conflict clause nor a
\* clause of the formula repeats a literal.
FirstUIPWithoutRepeatedLiterals ==
    (/\ cdcl_pc = "conflict"
     /\ decision_level > 0
     /\ \A c \in 1..Len(cnf) : ~HasRepeatedLiteral(cnf[c])) =>
        count_current_level_variables(learned_clause, implication_graph, decision_level) <= 1

\* The variables the pending _dpll call can branch on: what _choose_variable
\* can return once propagation found no conflict and not all clauses are
\* satisfied; none if the call returns without branching.
DPLL_branch_candidates ==
    LET propagation == DPLL_unit_propagation(dpll_arg)
        current_assignment == pure_literal_elimination(propagation.assignment)
    IN  IF dpll_pc = "call" /\ propagation.ok /\ ~all_clauses_satisfied(current_assignment)
        THEN DPLL_choose_variable(current_assignment)
        ELSE {}

\* C12: two runs of the same engine on the same formula produce the same
\* result, the same assignment and the same sequence of decisions and
\* propagations: in every state of a run the variable a branching decision
\* picks is determined by the formula and the run so far. (CDCL's
\* _choose_variable scans lists and returns one variable; DPLL's iterates a
\* set, and may return any of the candidates.)
C12_Deterministic == Cardinality(DPLL_branch_candidates) <= 1

\* C13: during and after a run of CDCLSolver.solve() the input formula keeps
\* its clauses, in their order, each with its literals; a learned clause is
\* only appended to learned_clauses, and no clause already stored changes.
C13_InputNotMutated ==
    [][/\ cnf' = cnf
       /\ Len(learned_clauses') >= Len(learned_clauses)
       /\ SubSeq(learned_clauses', 1, Len(learned_clauses)) = learned_clauses]_vars

\* CDCLSolver.solve() returned after it learned a clause that is none of the
\* input clauses.
C13_Witness ==
    /\ cdcl_result \in {SAT, UNSAT}
    /\ \E k \in 1..Len(learned_clauses) :
           \A c \in 1..Len(cnf) : cnf[c] # learned_clauses[k]

\* A formula with a clause that has no literals.
HasEmptyClause(formula) == \E c \in 1..Len(formula) : Len(formula[c]) = 0

\* C14: on the formula with no clauses both solvers return SAT with an empty
\* assignment, and on a formula that contains a clause with no literals both
\* return UNSAT.
C14_EmptyFormulaEmptyClause ==
    /\ cnf = <<>> =>
           <>(/\ dpll_result = SAT /\ dpll_assignment = EmptyDict
              /\ cdcl_result = SAT /\ assignment = EmptyDict)
    /\ HasEmptyClause(cnf) => <>(dpll_result = UNSAT /\ cdcl_result = UNSAT)

\* Both solvers returned UNSAT on a formula whose first clause has two
\* unassigned literals and whose second clause has none.
C14_Witness ==
    /\ Len(cnf) = 2
    /\ Len(cnf[1]) = 2
    /\ Len(cnf[2]) = 0
    /\ dpll_result = UNSAT
    /\ cdcl_result = UNSAT

\* The auxiliary variable names to_cnf_tseytin generates for a formula.
auxiliary_names(node) ==
    {fresh_z_variable(k) : k \in 1..extract_biconditionals(to_nnf(node)).z_counter}

\* C15: no auxiliary variable name to_cnf_tseytin generates is the name of a
\* variable of its input formula, also when the input uses names z_1, z_2, ...
C15_FreshNamesNotCaptured ==
    "to_cnf_tseytin" \in pre_done =>
        auxiliary_names(input_formula) \cap variables_of(input_formula) = {}

\* A formula in negation normal form: variables, negated variables, and
\* conjunctions and disjunctions of formulas in negation normal form.
RECURSIVE InNNF(_)
InNNF(node) ==
    CASE TypeOf(node) = "Variable" -> TRUE
      [] TypeOf(node) = "Not" -> TypeOf(node[2]) = "Variable"
      [] TypeOf(node) \in {"And", "Or"} -> InNNF(node[2]) /\ InNNF(node[3])
      [] OTHER -> FALSE

\* C16: to_nnf(F) has no Implies and no Biconditional node, every Not node in
\* it has a Variable as operand, and it evaluates as F does under every total
\* assignment.
C16_NnfEquivalent ==
    "to_nnf" \in pre_done =>
        /\ ~Raised(nnf)
        /\ InNNF(nnf)
        /\ \A a \in TotalAssignments(variables_of(input_formula)) :
               Eval(nnf, a) <=> Eval(input_formula, a)

\* to_nnf ran on the negation of a biconditional of two variables.
C16_Witness ==
    /\ "to_nnf" \in pre_done
    /\ TypeOf(input_formula) = "Not"
    /\ TypeOf(input_formula[2]) = "Biconditional"
    /\ Cardinality(variables_of(input_formula)) = 2
    /\ TypeOf(nnf) = "Or"

\* A formula built from Variable, Not, And and Or only.
RECURSIVE ImplicationFree(_)
ImplicationFree(node) ==
    CASE TypeOf(node) = "Variable" -> TRUE
      [] TypeOf(node) = "Not" -> ImplicationFree(node[2])
      [] TypeOf(node) \in {"And", "Or"} -> ImplicationFree(node[2]) /\ ImplicationFree(node[3])
      [] OTHER -> FALSE

\* push_negations_inward has been called on an implication-free input_formula.
Pushed == "push_negations_inward" \in DOMAIN step_result /\ ImplicationFree(input_formula)

\* C17, as stated: for every implication-free formula A,
\* push_negations_inward(Not(Not(A))) is structurally equal to A.
C17_DoubleNegationIsOperand ==
    Pushed => step_result["push_negations_inward"].double_negation = input_formula

\* C17, amended: for every implication-free formula A,
\* push_negations_inward(Not(Not(A))) is structurally equal to
\* push_negations_inward(A); it is structurally equal to A exactly when A is in
\* negation normal form.
C17_DoubleNegationIsPushedOperand ==
    Pushed =>
        LET result == step_result["push_negations_inward"]
        IN  /\ ~Raised(result.double_negation)
            /\ result.double_negation = result.once
            /\ result.double_negation = input_formula <=> InNNF(input_formula)

\* push_negations_inward ran on A and on Not(Not(A)) for a negated conjunction
\* A: both results are the disjunction of the negated operands, not A.
C17_Witness ==
    /\ Pushed
    /\ TypeOf(input_formula) = "Not"
    /\ TypeOf(input_formula[2]) = "And"
    /\ TypeOf(step_result["push_negations_inward"].double_negation) = "Or"

\* C18: for every implication-free formula F,
\* push_negations_inward(push_negations_inward(F)) is structurally equal to
\* push_negations_inward(F).
C18_PushIdempotent ==
    Pushed =>
        LET result == step_result["push_negations_inward"]
        IN  ~Raised(result.once) /\ result.twice = result.once

\* push_negations_inward ran twice on a negated disjunction, which the first
\* call turned into a conjunction.
C18_Witness ==
    /\ Pushed
    /\ TypeOf(input_formula) = "Not"
    /\ TypeOf(input_formula[2]) = "Or"
    /\ TypeOf(step_result["push_negations_inward"].twice) = "And"

\* Every node of the tree is of one of the given classes.
RECURSIVE OnlyKinds(_, _)
OnlyKinds(node, kinds) ==
    /\ TypeOf(node) \in kinds
    /\ CASE TypeOf(node) = "Not" -> OnlyKinds(node[2], kinds)
         [] TypeOf(node) \in BinaryOperators ->
               OnlyKinds(node[2], kinds) /\ OnlyKinds(node[3], kinds)
         [] OTHER -> TRUE

\* A variable or a negated variable.
LiteralShape(node) ==
    \/ TypeOf(node) = "Variable"
    \/ TypeOf(node) = "Not" /\ TypeOf(node[2]) = "Variable"

\* A literal or a disjunction of disjunctions and literals.
RECURSIVE ClauseShape(_)
ClauseShape(node) ==
    \/ LiteralShape(node)
    \/ TypeOf(node) = "Or" /\ ClauseShape(node[2]) /\ ClauseShape(node[3])

\* A clause or a conjunction of formulas in CNF structure.
RECURSIVE CNFShape(_)
CNFShape(node) ==
    \/ ClauseShape(node)
    \/ TypeOf(node) = "And" /\ CNFShape(node[2]) /\ CNFShape(node[3])

\* C19: each preprocessing step returns a result for every well-formed input
\* that meets its precondition and raises ValueError when it meets a node kind
\* it does not support: eliminate_implications a node that is none of the six
\* formula classes; push_negations_inward and distribute_or_over_and a node
\* that is no Variable, Not, And or Or; formula_to_cnf_format an input that is
\* no conjunction of clauses; extract_literals_from_or an input that is no
\* disjunction of literals; formula_to_literal an input that is no literal.
C19_StepsTotalOrValueError ==
    /\ "eliminate_implications" \in DOMAIN step_result =>
           (Raised(step_result["eliminate_implications"])
                <=> ~OnlyKinds(input_formula, {"Variable", "Not"} \cup BinaryOperators))
    /\ "push_negations_inward" \in DOMAIN step_result =>
           (Raised(step_result["push_negations_inward"].once)
                <=> ~OnlyKinds(input_formula, {"Variable", "Not", "And", "Or"}))
    /\ "distribute_or_over_and" \in DOMAIN step_result =>
           (Raised(step_result["distribute_or_over_and"])
                <=> ~OnlyKinds(input_formula, {"Variable", "Not", "And", "Or"}))
    /\ "formula_to_cnf_format" \in DOMAIN step_result =>
           (step_result["formula_to_cnf_format"].raised <=> ~CNFShape(input_formula))
    /\ "extract_literals_from_or" \in DOMAIN step_result =>
           (step_result["extract_literals_from_or"].raised <=> ~ClauseShape(input_formula))
    /\ "formula_to_literal" \in DOMAIN step_result =>
           (step_result["formula_to_literal"].raised <=> ~LiteralShape(input_formula))

\* All six steps ran on a disjunction whose right operand is an implication:
\* eliminate_implications returned a formula and the other steps raised.
C19_Witness ==
    /\ DOMAIN step_result = {"eliminate_implications", "push_negations_inward",
                             "distribute_or_over_and", "formula_to_cnf_format",
                             "extract_literals_from_or", "formula_to_literal"}
    /\ TypeOf(input_formula) = "Or"
    /\ TypeOf(input_formula[3]) = "Implies"
    /\ ~Raised(step_result["eliminate_implications"])
    /\ Raised(step_result["push_negations_inward"].once)
    /\ Raised(step_result["distribute_or_over_and"])
    /\ step_result["extract_literals_from_or"].raised

\* The values unit clauses force, as a set of <<variable, value>> pairs: one
\* round adds, for every clause that has no satisfied literal and exactly one
\* literal with an unassigned variable, the value that literal asks for.
ForcedRound(forced) ==
    LET assigned == {x[1] : x \in forced}
        satisfied(c) == \E i \in 1..Len(cnf[c]) :
                            <<cnf[c][i].variable, ~cnf[c][i].negated>> \in forced
        open(c) == {i \in 1..Len(cnf[c]) : cnf[c][i].variable \notin assigned}
    IN  forced \cup {<<cnf[c][i].variable, ~cnf[c][i].negated>> :
                         <<c, i>> \in {y \in (1..Len(cnf)) \X (1..MaxLen + 1) :
                                           /\ ~satisfied(y[1])
                                           /\ open(y[1]) = {y[2]}}}

\* The forced values falsify a clause, or force a variable both ways.
ForcedConflict(forced) ==
    \/ \E x \in forced : <<x[1], ~x[2]>> \in forced
    \/ \E c \in 1..Len(cnf) :
           \A i \in 1..Len(cnf[c]) : <<cnf[c][i].variable, cnf[c][i].negated>> \in forced

\* Unit propagation from the given forced values alone falsifies a clause.
RECURSIVE PropagationFalsifies(_)
PropagationFalsifies(forced) ==
    IF ForcedConflict(forced) THEN TRUE
    ELSE IF ForcedRound(forced) = forced THEN FALSE
    ELSE PropagationFalsifies(ForcedRound(forced))

\* The trail holds no decision (an entry whose reason is None).
NoDecisionOnTrail ==
    \A k \in 1..Len(decision_stack) : ~decision_stack[k].reason.is_none

\* C20: when unit propagation from the empty assignment alone falsifies a
\* clause, CDCLSolver.solve() goes from its first propagation to the conflict
\* and returns UNSAT, with decision_level still 0 and without a decision ever
\* on the trail, and DPLLSolver.solve() returns UNSAT as well.
C20_UnsatAtLevelZero ==
    PropagationFalsifies({}) =>
        /\ decision_level = 0
        /\ NoDecisionOnTrail
        /\ cdcl_pc \in {"propagate", "conflict", "done"}
        /\ cdcl_pc = "done" => cdcl_result = UNSAT
        /\ dpll_pc = "done" => dpll_result = UNSAT

\* Both solvers returned UNSAT on three clauses of which the first, of two
\* literals, is falsified only by the second pass of unit propagation.
C20_Witness ==
    /\ PropagationFalsifies({})
    /\ Len(cnf) = 3
    /\ Len(cnf[1]) = 2
    /\ ~HasRepeatedLiteral(cnf[1])
    /\ conflict_clause = Some(cnf[1])
    /\ Len(decision_stack) = 2
    /\ cdcl_result = UNSAT
    /\ dpll_result = UNSAT

\* The first unit propagation of CDCLSolver.solve() finds a conflict exactly
\* when the unit clauses force one.
PropagationAgrees ==
    (cdcl_pc \in {"conflict", "decide"} /\ learned_clauses = <<>> /\ decision_level = 0) =>
        (cdcl_pc = "conflict" <=> PropagationFalsifies({}))

\* ------------------------------------------------------------------ parser claims

\* The nesting depth of the i-th token: the parentheses opened and not closed before it.
Depth(token_list, i) ==
    Cardinality({j \in 1..(i - 1) : token_list[j] = <<"(">>})
        - Cardinality({j \in 1..(i - 1) : token_list[j] = <<")">>})

\* The indices of the tokens of `kind` outside all parentheses.
TopLevel(token_list, kind) ==
    {i \in 1..Len(token_list) : token_list[i] \in kind /\ Depth(token_list, i) = 0}

First(S) == CHOOSE i \in S : \A j \in S : i <= j
Last(S) == CHOOSE i \in S : \A j \in S : i >= j

\* An identifier starts with a letter and continues with letters or digits,
\* and is none of the aliases not, and, or.
IsIdentifier(token) ==
    /\ token # <<>>
    /\ isalpha(token[1])
    /\ \A k \in 1..Len(token) : isalpha(token[k]) \/ isdigit(token[k])
    /\ token \notin NotTokens \cup AndTokens \cup OrTokens

Malformed == <<"Malformed">>

\* The tree the precedence and associativity rules determine for a token
\* sequence: the loosest connective outside parentheses is the root (the last
\* one of a left-associative chain, the first one of a right-associative
\* chain); a negation applies to all that follows when no binary connective
\* is outside parentheses; a pair of parentheses around the whole is dropped.
RECURSIVE RuleTree(_)
RuleSplit(token_list, i, kind) ==
    LET left == RuleTree(SubSeq(token_list, 1, i - 1))
        right == RuleTree(SubSeq(token_list, i + 1, Len(token_list)))
    IN  IF left = Malformed \/ right = Malformed THEN Malformed
        ELSE <<kind, left, right>>
RuleTree(token_list) ==
    IF token_list = <<>> THEN Malformed
    ELSE IF TopLevel(token_list, BiconditionalTokens) # {}
    THEN RuleSplit(token_list, Last(TopLevel(token_list, BiconditionalTokens)), "Biconditional")
    ELSE IF TopLevel(token_list, ImpliesTokens) # {}
    THEN RuleSplit(token_list, First(TopLevel(token_list, ImpliesTokens)), "Implies")
    ELSE IF TopLevel(token_list, OrTokens) # {}
    THEN RuleSplit(token_list, Last(TopLevel(token_list, OrTokens)), "Or")
    ELSE IF TopLevel(token_list, AndTokens) # {}
    THEN RuleSplit(token_list, Last(TopLevel(token_list, AndTokens)), "And")
    ELSE IF token_list[1] \in NotTokens
    THEN IF RuleTree(Tail(token_list)) = Malformed THEN Malformed
         ELSE <<"Not", RuleTree(Tail(token_list))>>
    ELSE IF Len(token_list) >= 2 /\ token_list[1] = <<"(">> /\ token_list[Len(token_list)] = <<")">>
    THEN RuleTree(SubSeq(token_list, 2, Len(token_list) - 1))
    ELSE IF Len(token_list) = 1 /\ IsIdentifier(token_list[1])
    THEN <<"Variable", token_list[1]>>
    ELSE Malformed

\* parse(text) has been called on a text whose tokens form a formula.
ParsedWellFormed ==
    /\ "parse" \in read_done
    /\ ~tokenize(text).raised
    /\ RuleTree(tokenize(text).tokens) # Malformed

\* Every identifier among the tokens of the text is made of letters only.
AlphabeticIdentifiers ==
    \A k \in 1..Len(tokenize(text).tokens) :
        IsIdentifier(tokenize(text).tokens[k]) => token_isalpha(tokenize(text).tokens[k])

C22_IdentifiersAccepted ==
    /\ ("tokenize" \in read_done /\ ~tokens.raised) =>
           \A k \in 1..Len(tokens.tokens) :
               isalpha(tokens.tokens[k][1]) =>
                   parse_primary(<<tokens.tokens[k]>>, 0)
                       = ParseResult(Variable(tokens.tokens[k]), 1)
    /\ (/\ "parse" \in read_done
        /\ ~tokenize(text).raised
        /\ Len(tokenize(text).tokens) = 1
        /\ IsIdentifier(tokenize(text).tokens[1])) =>
           /\ ~parsed.raised
           /\ parsed.formula = Variable(tokenize(text).tokens[1])

\* ------------------------------------------------------------------ DIMACS claims

\* The integer a word of the input denotes.
NumberOf(word) ==
    CASE word = <<"0">> -> 0
      [] word = <<"1">> -> 1
      [] word = <<"2">> -> 2
      [] word = <<"3">> -> 3
      [] word = <<"-", "1">> -> 0 - 1
      [] word = <<"-", "2">> -> 0 - 2

\* The header line `p cnf V C` of the input, when its first line is one.
HeaderFields == split(dimacs_content[1])
WellFormedHeader ==
    /\ Len(HeaderFields) = 4
    /\ HeaderFields[1] = <<"p">>
    /\ HeaderFields[2] = <<"c", "n", "f">>
    /\ HeaderFields[3] \in {<<"1">>, <<"2">>, <<"3">>}
    /\ HeaderFields[4] \in {<<"0">>, <<"1">>, <<"2">>, <<"3">>}
DeclaredVariables == NumberOf(HeaderFields[3])
DeclaredClauses == NumberOf(HeaderFields[4])

\* The clause lines of the input: the lines after the header that are not
\* blank, not a comment and not %; and the integers of such a line.
ClauseLines ==
    {i \in 2..Len(dimacs_content) :
        /\ dimacs_content[i] # <<>>
        /\ dimacs_content[i][1] # "c"
        /\ dimacs_content[i] # <<"%">>}
Integers(i) == [k \in 1..Len(split(dimacs_content[i])) |-> NumberOf(split(dimacs_content[i])[k])]

\* The literal an integer of the input denotes.
LiteralOf(k) ==
    Literal(<<"x", CHOOSE char \in DecimalDigits : DigitValue(char) = abs(k)>>, k < 0)

\* The literals of a clause line: those of its integers before its first 0.
RECURSIVE LiteralsBeforeZero(_)
LiteralsBeforeZero(integers) ==
    IF integers = <<>> \/ integers[1] = 0 THEN <<>>
    ELSE <<LiteralOf(integers[1])>> \o LiteralsBeforeZero(Tail(integers))

\* The clauses of the input in file order: one for each clause line that
\* starts with a literal.
RECURSIVE FileClauses(_)
FileClauses(i) ==
    IF i > Len(dimacs_content) THEN <<>>
    ELSE IF i \in ClauseLines /\ LiteralsBeforeZero(Integers(i)) # <<>>
    THEN <<LiteralsBeforeZero(Integers(i))>> \o FileClauses(i + 1)
    ELSE FileClauses(i + 1)

DimacsReturned == "parse_dimacs_string" \in read_done /\ ~dimacs_result.raised
DimacsRaised == "parse_dimacs_string" \in read_done /\ dimacs_result.raised

\* A formula returned for an input with the header `p cnf V C` has C clauses,
\* over the variables x1 .. xV, which are the clauses of the input in file
\* order with a literal negated exactly when its integer is negative.
ReturnedFormulaIsTheInput ==
    (DimacsReturned /\ WellFormedHeader) =>
        /\ Len(dimacs_result.clauses) = DeclaredClauses
        /\ \A c \in 1..Len(dimacs_result.clauses) :
               \A l \in 1..Len(dimacs_result.clauses[c]) :
                   \E k \in 1..DeclaredVariables :
                       dimacs_result.clauses[c][l].variable = LiteralOf(k).variable
        /\ dimacs_result.clauses = FileClauses(2)

\* An input with a malformed header raises an error.
MalformedHeaderRaises ==
    ("parse_dimacs_string" \in read_done /\ ~WellFormedHeader) => dimacs_result.raised

\* An input with a clause line that does not end with 0 raises an error.
MissingZeroRaises ==
    (/\ "parse_dimacs_string" \in read_done
     /\ \E i \in ClauseLines : Integers(i)[Len(Integers(i))] # 0) => dimacs_result.raised

\* An input with an integer of magnitude above V raises an error.
MagnitudeAboveVRaises ==
    (/\ "parse_dimacs_string" \in read_done
     /\ WellFormedHeader
     /\ \E i \in ClauseLines : \E k \in 1..Len(Integers(i)) :
            abs(Integers(i)[k]) > DeclaredVariables) => dimacs_result.raised

\* An input whose number of clauses differs from C raises an error.
CountMismatchRaises ==
    (/\ "parse_dimacs_string" \in read_done
     /\ WellFormedHeader
     /\ Len(FileClauses(2)) # DeclaredClauses) => dimacs_result.raised

\* C23: whenever parse_dimacs_string returns a formula for an input whose
\* header is `p cnf V C`, the formula has exactly C clauses, its literals are
\* over x1 .. xV, negated exactly when their integer is negative, in file
\* order; an input with a malformed header, with a clause line that does not
\* end with 0, with a magnitude above V or with a number of clauses other
\* than C raises an error.
C23_DimacsContract ==
    /\ ReturnedFormulaIsTheInput
    /\ MalformedHeaderRaises
    /\ MissingZeroRaises
    /\ MagnitudeAboveVRaises
    /\ CountMismatchRaises

\* ------------------------------------------------------------------ Tseytin structure

\* The number of And and Or nodes of a formula in negation normal form.
RECURSIVE AndOrNodes(_)
AndOrNodes(node) ==
    IF TypeOf(node) \in {"And", "Or"}
    THEN 1 + AndOrNodes(node[2]) + AndOrNodes(node[3])
    ELSE 0

\* The name of the i-th auxiliary variable.
ZName(i) == "z_" \o ToString(i)

\* The clauses, as sets of literals, of z <-> (a and b) and of z <-> (a or b)
\* for literals a and b.
Opposite(literal) == Literal(literal.variable, ~literal.negated)
DefinitionClauses(kind, z, a, b) ==
    IF kind = "And"
    THEN {{Opposite(z), a}, {Opposite(z), b}, {z, Opposite(a), Opposite(b)}}
    ELSE {{Opposite(z), a, b}, {z, Opposite(a)}, {z, Opposite(b)}}

\* The Tseytin definitions of a formula in negation normal form whose And and
\* Or nodes are numbered in pre-order from used + 1: the literal that stands
\* for the formula, the last number used, and the clauses of the definitions.
RECURSIVE TseytinDefinitions(_, _)
TseytinDefinitions(node, used) ==
    IF TypeOf(node) = "Variable"
    THEN [literal |-> Literal(node[2], FALSE), used |-> used, clauses |-> {}]
    ELSE IF TypeOf(node) = "Not"
    THEN [literal |-> Literal(node[2][2], TRUE), used |-> used, clauses |-> {}]
    ELSE LET z == Literal(ZName(used + 1), FALSE)
             left == TseytinDefinitions(node[2], used + 1)
             right == TseytinDefinitions(node[3], left.used)
         IN  [literal |-> z, used |-> right.used,
              clauses |-> DefinitionClauses(TypeOf(node), z, left.literal, right.literal)
                              \cup left.clauses \cup right.clauses]

\* The set of the literals of a clause.
LiteralSet(clause) == {clause[i] : i \in 1..Len(clause)}

\* to_cnf_tseytin was called on a formula whose negation normal form has at
\* least one And or Or node.
TseytinOfConnective ==
    /\ "to_cnf_tseytin" \in pre_done
    /\ ~Raised(to_nnf(input_formula))
    /\ AndOrNodes(to_nnf(input_formula)) >= 1

\* C24: for a formula whose negation normal form has n >= 1 And/Or nodes,
\* to_cnf_tseytin returns 3n + 1 clauses; the variables it adds are exactly
\* z_1 .. z_n; the clauses before the last are those of z_i <-> op(child,
\* child) for every And/Or node, numbered in pre-order with z_1 the root and
\* with the non-leaf children replaced by their auxiliary variables; the last
\* clause is the unit clause of the positive literal z_1.
C24_TseytinStructure ==
    TseytinOfConnective =>
        LET n == AndOrNodes(to_nnf(input_formula))
            clauses == tseytin.clauses
        IN  /\ ~tseytin.raised
            /\ Len(clauses) = 3 * n + 1
            /\ formula_variables(clauses) \ variables_of(input_formula)
                   = {ZName(i) : i \in 1..n}
            /\ {LiteralSet(clauses[c]) : c \in 1..(Len(clauses) - 1)}
                   = TseytinDefinitions(to_nnf(input_formula), 0).clauses
            /\ clauses[Len(clauses)] = <<Literal(ZName(1), FALSE)>>

\* to_cnf_tseytin ran on a negated biconditional of two variables, whose
\* negation normal form has three And/Or nodes and four negated leaves.
C24_Witness ==
    /\ TseytinOfConnective
    /\ TypeOf(input_formula) = "Not"
    /\ TypeOf(input_formula[2]) = "Biconditional"
    /\ Cardinality(variables_of(input_formula)) = 2
    /\ AndOrNodes(to_nnf(input_formula)) = 3
    /\ Len(tseytin.clauses) = 10

\* ------------------------------------------------------------------ CDCL trail claims

\* The variables on the trail.
TrailVariables == {decision_stack[k].variable : k \in 1..Len(decision_stack)}

\* C25: in every state of CDCLSolver.solve() the variables of `assignment`,
\* the variables on the trail and the keys of the implication graph are the
\* same set, and for every trail entry the assignment has its value and the
\* implication-graph node has its value and its decision level.
C25_TrailAssignmentGraphAgree ==
    /\ DOMAIN assignment = TrailVariables
    /\ DOMAIN implication_graph = TrailVariables
    /\ \A k \in 1..Len(decision_stack) :
           LET entry == decision_stack[k]
           IN  /\ assignment[entry.variable] = entry.value
               /\ implication_graph[entry.variable].variable = entry.variable
               /\ implication_graph[entry.variable].value = entry.value
               /\ implication_graph[entry.variable].decision_level = entry.decision_level

\* After a backjump to a level above 0 the trail still holds a decision and a
\* propagation.
C25_Witness ==
    /\ cdcl_pc = "propagate"
    /\ Len(learned_clauses) >= 1
    /\ decision_level >= 1
    /\ \E k \in 1..Len(decision_stack) : decision_stack[k].reason.is_none
    /\ \E k \in 1..Len(decision_stack) : ~decision_stack[k].reason.is_none

\* The literal is made false by the assignment.
Falsified(literal, a) ==
    literal.variable \in DOMAIN a /\ a[literal.variable] = literal.negated

\* C26: for every propagated entry on the trail, the reason clause has
\* exactly one literal over the entry's variable, the value of the entry
\* makes that literal true, every other literal of the reason clause is
\* falsified by the assignment, and the variable of every other literal is
\* on the trail before the entry.
C26_ReasonClauseForces ==
    \A k \in 1..Len(decision_stack) :
        LET entry == decision_stack[k]
            reason == entry.reason.clause
        IN  ~entry.reason.is_none =>
                /\ Cardinality({i \in 1..Len(reason) : reason[i].variable = entry.variable}) = 1
                /\ \A i \in 1..Len(reason) :
                       IF reason[i].variable = entry.variable
                       THEN entry.value = ~reason[i].negated
                       ELSE /\ Falsified(reason[i], assignment)
                            /\ \E j \in 1..(k - 1) :
                                   decision_stack[j].variable = reason[i].variable

\* A learned clause of two literals is the reason of an entry on the trail.
C26_Witness ==
    \E k \in 1..Len(decision_stack) :
        /\ ~decision_stack[k].reason.is_none
        /\ Len(decision_stack[k].reason.clause) = 2
        /\ \E c \in 1..Len(learned_clauses) : learned_clauses[c] = decision_stack[k].reason.clause
        /\ \A c \in 1..Len(cnf) : cnf[c] # decision_stack[k].reason.clause

\* C27: in every state of CDCLSolver.solve() the decision levels of the trail
\* entries do not decrease with the trail index, no entry has a level above
\* decision_level, and every entry at level 0 is a propagation.
C27_TrailLevelsOrdered ==
    /\ \A j, k \in 1..Len(decision_stack) :
           j < k => decision_stack[j].decision_level <= decision_stack[k].decision_level
    /\ \A k \in 1..Len(decision_stack) :
           /\ decision_stack[k].decision_level \in 0..decision_level
           /\ decision_stack[k].decision_level = 0 => ~decision_stack[k].reason.is_none

\* The trail holds a propagation of level 0, a decision of level 1 and an
\* entry of level 2.
C27_Witness ==
    /\ decision_level = 2
    /\ Len(decision_stack) >= 3
    /\ decision_stack[1].decision_level = 0
    /\ \E k \in 1..Len(decision_stack) :
           decision_stack[k].decision_level = 1 /\ decision_stack[k].reason.is_none
    /\ decision_stack[Len(decision_stack)].decision_level = 2

\* ------------------------------------------------------------------ learned clause claims

\* The state of the solver after _backtrack_to_level(_backjump(learned_clause)).
after_backjump ==
    backtrack_to_level(current_state, decision_level,
                       backjump(learned_clause, implication_graph))

\* The indices of the literals of a clause whose variable is unassigned.
Unassigned(clause, a) == {i \in 1..Len(clause) : clause[i].variable \notin DOMAIN a}

\* The clause is unit under the assignment: exactly one of its literals is
\* unassigned and all the others are falsified.
IsUnit(clause, a) ==
    /\ Cardinality(Unassigned(clause, a)) = 1
    /\ \A i \in 1..Len(clause) : i \notin Unassigned(clause, a) => Falsified(clause[i], a)

\* The clause learned from the conflict at hand is falsified by the
\* assignment and is a unit clause after the backjump.
LearnedClauseAsserting ==
    /\ \A i \in 1..Len(learned_clause) : Falsified(learned_clause[i], assignment)
    /\ IsUnit(learned_clause, after_backjump.state.assignment)

\* The unit propagation that follows the backjump assigns the unassigned
\* literal of the learned clause at the backjump level, with the learned
\* clause as the reason.
LearnedClausePropagated ==
    LET back == after_backjump
        propagation == CDCL_unit_propagation(cnf \o Append(learned_clauses, learned_clause),
                                             back.state, back.decision_level)
        i == CHOOSE i \in Unassigned(learned_clause, back.state.assignment) : TRUE
    IN  \E k \in 1..Len(propagation.state.decision_stack) :
            propagation.state.decision_stack[k]
                = Assignment(learned_clause[i].variable, ~learned_clause[i].negated,
                             back.decision_level, Some(learned_clause))

\* C28: for every conflict handled at decision_level > 0, the learned clause
\* is falsified by the assignment when it is learned, after the backjump
\* exactly one of its literals is unassigned and all the others are
\* falsified, and the next unit propagation assigns that literal at the
\* backjump level with the learned clause as the reason.
C28_LearnedClauseAsserting ==
    (cdcl_pc = "conflict" /\ decision_level > 0) =>
        /\ LearnedClauseAsserting
        /\ LearnedClausePropagated

\* The same for the conflicts in which neither an input clause nor a learned
\* clause repeats a literal.
AssertingWithoutRepeatedLiterals ==
    (/\ cdcl_pc = "conflict"
     /\ decision_level > 0
     /\ \A c \in 1..Len(cnf) : ~HasRepeatedLiteral(cnf[c])) =>
        LearnedClauseAsserting

PropagatedWithoutRepeatedLiterals ==
    (/\ cdcl_pc = "conflict"
     /\ decision_level > 0
     /\ \A c \in 1..Len(cnf) : ~HasRepeatedLiteral(cnf[c])) =>
        LearnedClausePropagated

\* The sets of literals of the input clauses and of the clauses learned so far.
KnownLiteralSets ==
    {LiteralSet(cnf[c]) : c \in 1..Len(cnf)}
        \cup {LiteralSet(learned_clauses[c]) : c \in 1..Len(learned_clauses)}

\* Handling the conflict at hand appends the learned clause, and nothing
\* else, to learned_clauses (which is represented up to MaxLearned clauses).
AppendsLearnedClause ==
    Len(learned_clauses) < MaxLearned =>
        learned_clauses' = Append(learned_clauses, learned_clause)

\* C29: every conflict handled at decision_level > 0 appends exactly one
\* clause to learned_clauses, whose set of literals is that of no input
\* clause and of no clause learned before (so that no clause is learned
\* twice); a conflict at decision level 0 ends the run with UNSAT.
C29_LearnedClauseIsNew ==
    [][cdcl_pc = "conflict" =>
          IF decision_level > 0
          THEN /\ AppendsLearnedClause
               /\ LiteralSet(learned_clause) \notin KnownLiteralSets
               /\ cdcl_pc' = "propagate"
          ELSE /\ cdcl_pc' = "done"
               /\ cdcl_result' = UNSAT]_vars

\* The same for the inputs in which no clause repeats a literal.
NewWithoutRepeatedLiterals ==
    [][(cdcl_pc = "conflict" /\ \A c \in 1..Len(cnf) : ~HasRepeatedLiteral(cnf[c])) =>
          IF decision_level > 0
          THEN /\ AppendsLearnedClause
               /\ LiteralSet(learned_clause) \notin KnownLiteralSets
               /\ cdcl_pc' = "propagate"
          ELSE /\ cdcl_pc' = "done"
               /\ cdcl_result' = UNSAT]_vars

\* ------------------------------------------------------------------ unit propagation claims

\* The clauses _unit_propagation examines: the input clauses, then the
\* learned clauses, each in insertion order.
Database == cnf \o learned_clauses

\* The trail entries a step adds.
NewEntries == (Len(decision_stack) + 1)..Len(decision_stack')

\* The entry is forced by the clause: the clause has a literal over the
\* entry's variable that the entry's value makes true, and every other
\* literal of the clause is falsified by the assignment.
ForcedBy(entry, clause, a) ==
    \E i \in 1..Len(clause) :
        /\ clause[i].variable = entry.variable
        /\ entry.value = ~clause[i].negated
        /\ \A j \in 1..Len(clause) : j # i => Falsified(clause[j], a)

\* C30: one call of CDCL _unit_propagation. The clause it returns is a clause
\* of the database that the assignment falsifies; it returns None only when
\* no clause of the database is falsified and none is unit; every assignment
\* it adds is at the current decision level, over a variable that had no
\* value, with a clause of the database that forces it as the reason, and
\* the values assigned before stay; of two clauses that are unit before the
\* call and become reasons, the one that comes first in the database (input
\* clauses before learned clauses, a clause counted where it first occurs)
\* has its entry first on the trail.
C30_UnitPropagationContract ==
    [][(cdcl_pc = "propagate" /\ cdcl_pc' # "propagate") =>
          /\ ~conflict_clause'.is_none =>
                 /\ \E c \in 1..Len(Database) : Database[c] = conflict_clause'.clause
                 /\ \A i \in 1..Len(conflict_clause'.clause) :
                        Falsified(conflict_clause'.clause[i], assignment')
          /\ conflict_clause'.is_none =>
                 \A c \in 1..Len(Database) :
                     /\ \E i \in 1..Len(Database[c]) : ~Falsified(Database[c][i], assignment')
                     /\ ~IsUnit(Database[c], assignment')
          /\ Len(decision_stack') >= Len(decision_stack)
          /\ SubSeq(decision_stack', 1, Len(decision_stack)) = decision_stack
          /\ \A v \in DOMAIN assignment : v \in DOMAIN assignment' /\ assignment'[v] = assignment[v]
          /\ \A k \in NewEntries :
                 LET entry == decision_stack'[k]
                 IN  /\ entry.decision_level = decision_level
                     /\ entry.variable \notin DOMAIN assignment
                     /\ \A j \in NewEntries : j # k => decision_stack'[j].variable # entry.variable
                     /\ ~entry.reason.is_none
                     /\ \E c \in 1..Len(Database) : Database[c] = entry.reason.clause
                     /\ ForcedBy(entry, entry.reason.clause, assignment')
                     /\ assignment'[entry.variable] = entry.value
          /\ \A c, d \in 1..Len(Database) : \A j, k \in NewEntries :
                 (/\ c < d
                  /\ IsUnit(Database[c], assignment)
                  /\ IsUnit(Database[d], assignment)
                  /\ Database[c] # Database[d]
                  /\ \A b \in 1..(d - 1) : Database[b] # Database[d]
                  /\ decision_stack'[j].reason.clause = Database[c]
                  /\ decision_stack'[k].reason.clause = Database[d]) => j < k]_vars

\* A propagation that found no conflict has assigned one variable by an input
\* clause and another one by a learned clause.
C30_Witness ==
    /\ cdcl_pc = "decide"
    /\ \E j, k \in 1..Len(decision_stack) :
           /\ decision_stack[j].decision_level = decision_level
           /\ decision_stack[k].decision_level = decision_level
           /\ ~decision_stack[j].reason.is_none
           /\ \E c \in 1..Len(cnf) : cnf[c] = decision_stack[j].reason.clause
           /\ ~decision_stack[k].reason.is_none
           /\ \E c \in 1..Len(learned_clauses) : learned_clauses[c] = decision_stack[k].reason.clause
           /\ \A c \in 1..Len(cnf) : cnf[c] # decision_stack[k].reason.clause

\* ------------------------------------------------------------------ backtracking claims

\* The trail entries of a level above k.
EntriesAbove(k) ==
    {i \in 1..Len(decision_stack) : decision_stack[i].decision_level > k}

\* The variables of the trail entries of a level above k.
VariablesAbove(k) == {decision_stack[i].variable : i \in EntriesAbove(k)}

\* The trail without its entries of a level above k.
TrailUpTo(k) == SelectSeq(decision_stack, LAMBDA entry : entry.decision_level <= k)

\* The dictionary without the keys in `removed`.
Without(d, removed) == [v \in (DOMAIN d) \ removed |-> d[v]]

\* What _backtrack_to_level(k) is to leave: the trail without the entries
\* above level k, assignment and implication graph without the variables of
\* those entries, and decision_level k.
BacktrackedTo(result, k) ==
    /\ result.state.decision_stack = TrailUpTo(k)
    /\ result.state.assignment = Without(assignment, VariablesAbove(k))
    /\ result.state.implication_graph = Without(implication_graph, VariablesAbove(k))
    /\ result.decision_level = k

\* The first sequence is the beginning of the second.
IsPrefix(s, t) == Len(s) <= Len(t) /\ SubSeq(t, 1, Len(s)) = s

\* C31: in every state of CDCLSolver.solve(), _backtrack_to_level(k) with k
\* below decision_level would remove exactly the trail entries above level k
\* with their keys in assignment and implication graph and set
\* decision_level to k, and with k = decision_level would change nothing;
\* and the step that handles a conflict above level 0 leaves exactly that
\* for k the backjump level, keeps every entry of level 0, keeps the input
\* clauses and keeps every clause learned so far.
C31_BacktrackRemovesLevelsAbove ==
    [][/\ \A k \in 0..decision_level :
              BacktrackedTo(backtrack_to_level(current_state, decision_level, k), k)
       /\ backtrack_to_level(current_state, decision_level, decision_level)
              = [state |-> current_state, decision_level |-> decision_level]
       /\ (cdcl_pc = "conflict" /\ decision_level > 0 /\ cdcl_pc' = "propagate") =>
              LET k == backjump(learned_clause, implication_graph)
              IN  /\ k < decision_level
                  /\ decision_stack' = TrailUpTo(k)
                  /\ assignment' = Without(assignment, VariablesAbove(k))
                  /\ implication_graph' = Without(implication_graph, VariablesAbove(k))
                  /\ decision_level' = k
                  /\ \A i \in 1..Len(decision_stack) :
                         decision_stack[i].decision_level = 0 =>
                             /\ i <= Len(decision_stack')
                             /\ decision_stack'[i] = decision_stack[i]
                             /\ assignment'[decision_stack[i].variable] = decision_stack[i].value
                  /\ cnf' = cnf
                  /\ IsPrefix(learned_clauses, learned_clauses')]_vars

\* A conflict was handled by a backjump to level 0 that left propagations of
\* level 0 on the trail.
C31_Witness ==
    /\ cdcl_pc = "propagate"
    /\ Len(learned_clauses) >= 1
    /\ decision_level = 0
    /\ Len(decision_stack) >= 1
    /\ \A v \in DOMAIN assignment : \E i \in 1..Len(decision_stack) : decision_stack[i].variable = v

\* The distinct decision levels of the variables of the clause that are in
\* the implication graph.
LevelsOf(clause) ==
    {implication_graph[v].decision_level :
        v \in {clause[i].variable : i \in 1..Len(clause)} \cap DOMAIN implication_graph}

\* The levels of the clause that have exactly one level of the clause above.
SecondHighest(clause) ==
    {l \in LevelsOf(clause) : Cardinality({m \in LevelsOf(clause) : m > l}) = 1}

\* What _backjump(L) is to return.
BackjumpLevel(clause) ==
    IF Len(clause) <= 1 \/ SecondHighest(clause) = {}
    THEN 0
    ELSE CHOOSE l \in SecondHighest(clause) : TRUE

\* The clauses _backjump is applied to: the input clauses, the learned
\* clauses and, at a conflict, the clause that is being learned.
BackjumpArguments ==
    {cnf[c] : c \in 1..Len(cnf)} \cup {learned_clauses[c] : c \in 1..Len(learned_clauses)}
        \cup (IF cdcl_pc = "conflict" THEN {learned_clause} ELSE {})

\* C32: in every state of CDCLSolver.solve(), _backjump(L) is 0 when L has
\* at most one literal, and otherwise the second-highest distinct decision
\* level of the variables of L that are in the implication graph, or 0 when
\* there are fewer than two such levels; the step that handles a conflict
\* above level 0 backtracks to that level of the clause it learned, having
\* computed it on the trail, assignment and graph as they were at the
\* conflict.
C32_BackjumpSecondHighestLevel ==
    [][/\ \A clause \in BackjumpArguments :
              backjump(clause, implication_graph) = BackjumpLevel(clause)
       /\ (cdcl_pc = "conflict" /\ decision_level > 0 /\ cdcl_pc' = "propagate") =>
              /\ decision_level' = BackjumpLevel(learned_clause)
              /\ decision_stack' = TrailUpTo(BackjumpLevel(learned_clause))]_vars

\* A conflict at level 2 whose learned clause has variables of the levels 1
\* and 2: _backjump returns 1.
C32_Witness ==
    /\ cdcl_pc = "conflict"
    /\ decision_level = 2
    /\ Len(learned_clause) >= 2
    /\ LevelsOf(learned_clause) = {1, 2}
    /\ backjump(learned_clause, implication_graph) = 1

\* ------------------------------------------------------------------ decision level claims

\* The trail indices of the decisions (reason None).
Decisions == {i \in 1..Len(decision_stack) : decision_stack[i].reason.is_none}

\* The trail indices of the entries of a level.
EntriesOf(level) == {i \in 1..Len(decision_stack) : decision_stack[i].decision_level = level}

\* C33: in every state of CDCLSolver.solve(), decision_level is the number
\* of decisions on the trail, and every level from 1 to decision_level has
\* exactly one decision, which is the first trail entry of the level; the
\* step that decides raises decision_level by one and pushes one entry, of
\* the new level and with reason None, on the trail.
C33_DecisionLevelCountsDecisions ==
    [][/\ decision_level = Cardinality(Decisions)
       /\ \A level \in 1..decision_level :
              /\ Cardinality(Decisions \cap EntriesOf(level)) = 1
              /\ \A i \in Decisions \cap EntriesOf(level) :
                     \A j \in EntriesOf(level) : i <= j
       /\ (cdcl_pc = "decide" /\ cdcl_pc' = "propagate") =>
              /\ decision_level' = decision_level + 1
              /\ Len(decision_stack') = Len(decision_stack) + 1
              /\ SubSeq(decision_stack', 1, Len(decision_stack)) = decision_stack
              /\ decision_stack'[Len(decision_stack')].decision_level = decision_level'
              /\ decision_stack'[Len(decision_stack')].reason.is_none]_vars

\* After a backjump the solver has decided again: the trail holds two
\* decisions, of the levels 1 and 2, and a learned clause is in the database.
C33_Witness ==
    /\ decision_level = 2
    /\ Len(learned_clauses) >= 1
    /\ Cardinality(Decisions) = 2
    /\ decision_stack[Len(decision_stack)].reason.is_none
    /\ cdcl_pc = "propagate"

\* ------------------------------------------------------------------ antecedent claims

\* A Python str and a Python ImplicationNode, as objects with their class.
PyStr(name) == [class |-> "str", value |-> name]
PyNode(node) == [class |-> "ImplicationNode", value |-> node]

\* x == y in Python for these objects: str.__eq__ and the __eq__ that
\* @dataclass generates both answer False for an object of another class.
py_eq(x, y) == x.class = y.class /\ x.value = y.value

\* x in list, for a Python list
contains(list, x) == \E i \in 1..Len(list) : py_eq(list[i], x)

\* node.antecedents as the list of objects _add_implication and
\* _make_decision store: the nodes self.implication_graph[literal.variable].
antecedents_of(node) == [i \in 1..Len(node.antecedents) |-> PyNode(node.antecedents[i])]

\* The variables other than v that occur in the clause.
OtherVariables(clause, v) == {clause[i].variable : i \in 1..Len(clause)} \ {v}

\* C34: in every state of CDCLSolver.solve(), for every propagated variable
\* v of the implication graph a variable name is in node.antecedents exactly
\* when it is another variable of the reason clause of v, and the node of a
\* decision has an empty antecedent list.
C34_AntecedentsAreVariableNames ==
    \A v \in DOMAIN implication_graph :
        LET node == implication_graph[v]
        IN  IF node.reason.is_none
            THEN node.antecedents = <<>>
            ELSE \A name \in Vars :
                     contains(antecedents_of(node), PyStr(name))
                         <=> name \in OtherVariables(node.reason.clause, v)

\* The antecedents of every propagated variable are nodes of exactly the
\* other variables of its reason clause, and a decision has none.
AntecedentNodesOfOtherVariables ==
    \A v \in DOMAIN implication_graph :
        LET node == implication_graph[v]
        IN  IF node.reason.is_none
            THEN node.antecedents = <<>>
            ELSE {node.antecedents[i].variable : i \in 1..Len(node.antecedents)}
                     = OtherVariables(node.reason.clause, v)

\* ------------------------------------------------------------------ DPLL branching claims

\* The assignment of a _dpll call after its own unit propagation and its
\* pure literal step.
AfterPropagationAndPureLiterals(a) ==
    pure_literal_elimination(DPLL_unit_propagation(a).assignment)

\* The frame on top of the stack of _dpll calls.
TopFrame(stack) == stack[Len(stack)]

\* C35: a _dpll call that branches calls itself first with var = true on a
\* copy of its assignment as it is after its own unit propagation and pure
\* literal step; it calls itself with var = false only when that call
\* returned UNSAT, and then on a copy of the same assignment, which holds
\* var = false and nothing the failed call assigned; the assignment of a
\* call that waits for a recursive call is never changed by the callee.
C35_TrueBranchFirstOnCopies ==
    [][/\ Len(dpll_stack') > Len(dpll_stack) =>
              /\ dpll_pc = "call" /\ dpll_pc' = "call"
              /\ Len(dpll_stack') = Len(dpll_stack) + 1
              /\ TopFrame(dpll_stack').branch = "positive"
              /\ TopFrame(dpll_stack').current_assignment
                     = AfterPropagationAndPureLiterals(dpll_arg)
              /\ TopFrame(dpll_stack').branch_variable
                     \notin DOMAIN TopFrame(dpll_stack').current_assignment
              /\ dpll_arg' = DictSet(TopFrame(dpll_stack').current_assignment,
                                     TopFrame(dpll_stack').branch_variable, TRUE)
       /\ \A i \in 1..Len(dpll_stack) :
              i <= Len(dpll_stack') =>
                  /\ dpll_stack'[i].current_assignment = dpll_stack[i].current_assignment
                  /\ dpll_stack'[i].branch_variable = dpll_stack[i].branch_variable
                  /\ dpll_stack'[i].branch # dpll_stack[i].branch =>
                         /\ i = Len(dpll_stack)
                         /\ dpll_stack[i].branch = "positive"
                         /\ dpll_stack'[i].branch = "negative"
                         /\ dpll_pc = "return" /\ dpll_ret = UNSAT
                         /\ dpll_pc' = "call"
                         /\ DOMAIN dpll_arg' = DOMAIN dpll_stack[i].current_assignment
                                                   \cup {dpll_stack[i].branch_variable}
                         /\ dpll_arg'[dpll_stack[i].branch_variable] = FALSE
                         /\ \A v \in DOMAIN dpll_stack[i].current_assignment :
                                dpll_arg'[v] = dpll_stack[i].current_assignment[v]
       /\ (dpll_pc = "return" /\ Len(dpll_stack) > 0
               /\ TopFrame(dpll_stack).branch = "positive") =>
              IF dpll_ret = UNSAT
              THEN Len(dpll_stack') = Len(dpll_stack) /\ dpll_pc' = "call"
              ELSE Len(dpll_stack') = Len(dpll_stack) - 1 /\ dpll_pc' = "return"]_vars

\* The negative branch of a nested call is about to run: two calls wait, the
\* inner one after its true branch returned UNSAT.
C35_Witness ==
    /\ dpll_pc = "call"
    /\ Len(dpll_stack) >= 2
    /\ TopFrame(dpll_stack).branch = "negative"
    /\ dpll_ret = UNSAT
    /\ dpll_arg = DictSet(TopFrame(dpll_stack).current_assignment,
                          TopFrame(dpll_stack).branch_variable, FALSE)

\* ------------------------------------------------------------------ pure literal claims

\* The partial assignments of the variables.
PartialAssignments == UNION {[S -> BOOLEAN] : S \in SUBSET Vars}

\* The literal is made true by the assignment.
MadeTrue(literal, a) ==
    literal.variable \in DOMAIN a /\ a[literal.variable] = ~literal.negated

\* The occurrences <<clause index, literal index>> of the variable in the
\* input clauses that no literal satisfies under the assignment.
OpenOccurrences(a, v) ==
    {x \in (1..Len(cnf)) \X (1..MaxLen) :
        /\ x[2] <= Len(cnf[x[1]])
        /\ cnf[x[1]][x[2]].variable = v
        /\ \A i \in 1..Len(cnf[x[1]]) : ~MadeTrue(cnf[x[1]][i], a)}

\* The unassigned variables whose open occurrences all have one polarity.
PureVariables(a) ==
    {v \in Vars \ DOMAIN a :
        /\ OpenOccurrences(a, v) # {}
        /\ \A x, y \in OpenOccurrences(a, v) :
               cnf[x[1]][x[2]].negated = cnf[y[1]][y[2]].negated}

\* The value that makes the open occurrences of a pure variable true.
PureValue(a, v) ==
    LET x == CHOOSE x \in OpenOccurrences(a, v) : TRUE
    IN  ~cnf[x[1]][x[2]].negated

\* What _pure_literal_elimination is to do on the assignment a.
PureLiteralContract(a) ==
    LET after == pure_literal_elimination(a)
    IN  /\ DOMAIN after = (DOMAIN a) \cup PureVariables(a)
        /\ \A v \in DOMAIN a : after[v] = a[v]
        /\ \A v \in PureVariables(a) : after[v] = PureValue(a, v)
        /\ \A c \in 1..Len(cnf) :
               (\A i \in 1..Len(cnf[c]) : Falsified(cnf[c][i], after))
                   => (\A i \in 1..Len(cnf[c]) : Falsified(cnf[c][i], a))

C37_UnsatLearnsConflictClause ==
    [][/\ cdcl_result = UNSAT =>
              /\ Len(learned_clauses) >= 1
              /\ learned_clauses[Len(learned_clauses)] = conflict_clause.clause
              /\ decision_level = 0
              /\ \A i \in 1..Len(conflict_clause.clause) :
                     Falsified(conflict_clause.clause[i], assignment)
       /\ (cdcl_result # UNSAT /\ cdcl_result' = UNSAT) =>
              /\ cdcl_pc = "conflict" /\ ~conflict_clause.is_none
              /\ decision_level = 0
              /\ cnf' = cnf
              /\ IsPrefix(learned_clauses, learned_clauses')
              /\ Len(learned_clauses) < MaxLearned =>
                     learned_clauses' = Append(learned_clauses, conflict_clause.clause)
              /\ learned_clauses'[Len(learned_clauses')] = conflict_clause.clause]_vars

\* UNSAT was returned after an earlier conflict had been learned from: the
\* clause falsified at level 0 has two literals or more and is the second
\* learned clause or a later one.
C37_Witness ==
    /\ cdcl_result = UNSAT
    /\ Len(learned_clauses) >= 2
    /\ Len(conflict_clause.clause) >= 2
    /\ learned_clauses[Len(learned_clauses)] = conflict_clause.clause

\* The variables that occur in an input clause or in a learned clause.
DatabaseVariables ==
    UNION {{Database[c][i].variable : i \in 1..Len(Database[c])} : c \in 1..Len(Database)}

\* C38: when CDCLSolver.solve() has returned SAT, every variable of an
\* input clause or of a learned clause is assigned; the step that returns
\* SAT comes after a unit propagation that reported no conflict, finds every
\* such variable assigned and leaves assignment and clauses as they are.
C38_SatModelIsTotal ==
    [][/\ cdcl_result = SAT => DatabaseVariables \subseteq DOMAIN assignment
       /\ (cdcl_result # SAT /\ cdcl_result' = SAT) =>
              /\ cdcl_pc = "decide"
              /\ conflict_clause.is_none
              /\ DatabaseVariables \subseteq DOMAIN assignment
              /\ CDCL_choose_variable(Database, assignment) = NoVariable
              /\ assignment' = assignment
              /\ cnf' = cnf /\ learned_clauses' = learned_clauses]_vars

\* SAT was returned after a conflict had been learned from, with a decision
\* on the trail and all the variables of the model assigned.
C38_Witness ==
    /\ cdcl_result = SAT
    /\ Len(learned_clauses) >= 1
    /\ decision_level >= 1
    /\ DatabaseVariables = Vars
    /\ DOMAIN assignment = Vars

\* ------------------------------------------------------------------ backjump progress claims

\* C39: at every conflict CDCLSolver handles at a decision level d above 0,
\* the level _backjump returns for the learned clause is below d, and the
\* step that handles the conflict lowers decision_level to it, takes the
\* decision of level d and every later entry off the trail and unassigns
\* the decided variable.
C39_BackjumpBelowConflictLevel ==
    [][(cdcl_pc = "conflict" /\ decision_level > 0) =>
           /\ backjump(learned_clause, implication_graph) \in 0..(decision_level - 1)
           /\ decision_level' = backjump(learned_clause, implication_graph)
           /\ decision_level' < decision_level
           /\ cdcl_pc' = "propagate"
           /\ \A i \in Decisions \cap EntriesOf(decision_level) :
                  /\ Len(decision_stack') < i
                  /\ SubSeq(decision_stack, 1, Len(decision_stack')) = decision_stack'
                  /\ decision_stack[i].variable \notin DOMAIN assignment'
                  /\ decision_stack[i].variable \notin DOMAIN implication_graph'
           /\ Decisions \cap EntriesOf(decision_level) # {}]_vars

\* A conflict at level 2 whose learned clause has one literal: the backjump
\* goes to level 0, over level 1.
C39_Witness ==
    /\ cdcl_pc = "conflict"
    /\ decision_level = 2
    /\ Len(learned_clause) = 1
    /\ backjump(learned_clause, implication_graph) = 0
    /\ Cardinality(Decisions) = 2

\* ------------------------------------------------------------------ parser input claims

\* C40: when parse(text) has returned a formula, the parser has consumed the
\* whole token sequence of the text: no token is left over after the
\* formula.
C40_WholeInputConsumed ==
    ("parse" \in read_done /\ ~parsed.raised) =>
        parsed.position = Len(tokenize(text).tokens)

====
